---- MODULE Spec2Model ----
(***************************************************************************)
(* Model of the observability ingestion pipeline: the tail reader          *)
(* (readLogSlice / readNewLines), the line parsers, the event store        *)
(* (tracked_files and events tables) and the ObservabilityIngestor         *)
(* (backfill, debounced passes, lifecycle).                                *)
(*                                                                         *)
(* A file is a sequence of one-character strings (bytes); "\n" is the line *)
(* break.  JSON text is modelled at token level: "{" and "}" delimit an    *)
(* object, "y" stands for a well-formed `"type":"..."` member, "k" for any *)
(* other well-formed member, " " is white space and every other character  *)
(* is text that is not JSON.                                               *)
(***************************************************************************)
EXTENDS Integers, Sequences, FiniteSets, TLC

\* ------------------------------------------------------------------ bounds
\* Largest file size (bytes) the writers of the ingestor model produce.
MaxFileLen == 6
\* Largest file size (bytes) of the tail-reader scenarios.
MaxReadLen == 3
\* Largest explicit maxBytes argument of the tail-reader scenarios.
MaxCap == 2
\* Largest number of undelivered watcher notifications per path.
MaxNotifs == 2
\* Largest number of store failures injected in one behaviour.
MaxFailures == 1
\* Largest configured batch size (options.batchSize).
MaxBatchSize == 2
\* Largest number of watchers alive at once.
MaxWatchers == 2
\* Largest number of outstanding setTimeout callbacks that is counted.
MaxTimers == 2
\* Largest number of members of the object on a line given to a parser.
MaxMembers == 5
\* By how many symbols the long message texts exceed the preview; also the
\* length of the short ones.
MaxExtra == 1
\* Largest run of white space before and after the text of a line.
MaxPad == 1
\* Largest number of steps the surroundings take in one behaviour of Spec:
\* calls by the owner and appends by the log producers.
MaxCalls == 3
\* The names of a path of the pattern scenarios.
MaxSegments == 5
\* The descriptors of a configuration of the classification scenario.
MaxDescriptors == 2

\* --------------------------------------------------------------- constants
DEFAULT_MAX_BYTES == 1000000
DEFAULT_BATCH_SIZE == 100
PREVIEW_CHARS == 500

NL == "\n"

\* ------------------------------------------------------------ text helpers
Min(a, b) == IF a < b THEN a ELSE b
Max(a, b) == IF a > b THEN a ELSE b

\* All sequences over S of length 0..n.
SeqsUpTo(S, n) == UNION {[1..k -> S] : k \in 0..n}

\* String.prototype.split("\n"): k line breaks give k+1 segments.
RECURSIVE SplitFrom(_, _, _)
SplitFrom(text, i, cur) ==
  IF i > Len(text) THEN <<cur>>
  ELSE IF text[i] = NL THEN <<cur>> \o SplitFrom(text, i + 1, <<>>)
  ELSE SplitFrom(text, i + 1, Append(cur, text[i]))

SplitLines(text) == SplitFrom(text, 1, <<>>)

\* Number of line breaks in a text.
RECURSIVE CountNL(_)
CountNL(text) ==
  IF text = <<>> THEN 0
  ELSE (IF Head(text) = NL THEN 1 ELSE 0) + CountNL(Tail(text))

\* ------------------------------------------------------------- tail reader
\* An optional argument is <<>> (undefined) or <<v>>.
NoArg == <<>>
Arg(v) == <<v>>

\* A file on disk: present or not, and its bytes.
NoFile == [exists |-> FALSE, data |-> <<>>]
FileOf(data) == [exists |-> TRUE, data |-> data]

\* A start offset that keeps a cursor beyond the end of the file.
SliceStartKeepsCursor(size, cursorArg, maxBytes) ==
  IF cursorArg # NoArg
  THEN LET cursor == Max(0, cursorArg[1]) IN
       IF cursor > size
       THEN [start |-> size, truncated |-> FALSE, reset |-> FALSE]
       ELSE IF size - cursor > maxBytes
            THEN [start |-> Max(0, size - maxBytes), truncated |-> TRUE, reset |-> TRUE]
            ELSE [start |-> cursor, truncated |-> FALSE, reset |-> FALSE]
  ELSE LET start == Max(0, size - maxBytes) IN
       [start |-> start, truncated |-> start > 0, reset |-> FALSE]

\* A start offset that never skips forward from a supplied cursor.
SliceStartNoSkip(size, cursorArg, maxBytes) ==
  IF cursorArg # NoArg
  THEN LET cursor == Max(0, cursorArg[1]) IN
       IF cursor > size
       THEN [start |-> 0, truncated |-> FALSE, reset |-> TRUE]
       ELSE [start |-> cursor, truncated |-> FALSE, reset |-> FALSE]
  ELSE LET start == Max(0, size - maxBytes) IN
       [start |-> start, truncated |-> start > 0, reset |-> FALSE]

\* A start offset that replays the whole file when no cursor is supplied.
SliceStartReplaysAll(size, cursorArg, maxBytes) ==
  IF cursorArg # NoArg
  THEN LET cursor == Max(0, cursorArg[1]) IN
       IF cursor > size
       THEN [start |-> 0, truncated |-> FALSE, reset |-> TRUE]
       ELSE IF size - cursor > maxBytes
            THEN [start |-> Max(0, size - maxBytes), truncated |-> TRUE, reset |-> TRUE]
            ELSE [start |-> cursor, truncated |-> FALSE, reset |-> FALSE]
  ELSE [start |-> 0, truncated |-> FALSE, reset |-> FALSE]

\* The start offset and flags readLogSlice chooses for a file of `size` bytes.
SliceStart(size, cursorArg, maxBytes) ==
  IF cursorArg # NoArg
  THEN LET cursor == Max(0, cursorArg[1]) IN
       IF cursor > size
       THEN [start |-> 0, truncated |-> FALSE, reset |-> TRUE]
       ELSE IF size - cursor > maxBytes
            THEN [start |-> Max(0, size - maxBytes), truncated |-> TRUE, reset |-> TRUE]
            ELSE [start |-> cursor, truncated |-> FALSE, reset |-> FALSE]
  ELSE LET start == Max(0, size - maxBytes) IN
       [start |-> start, truncated |-> start > 0, reset |-> FALSE]

\* The lines readLogSlice extracts from bytes start+1..size of the data.
SliceLines(data, start, size) ==
  LET prefix == IF start > 0 THEN data[start] ELSE ""
      text   == SubSeq(data, start + 1, size)
      split  == SplitLines(text)
      lines1 == IF start > 0 /\ prefix # NL THEN Tail(split) ELSE split
  IN  IF Len(lines1) > 0 /\ lines1[Len(lines1)] = <<>>
      THEN SubSeq(lines1, 1, Len(lines1) - 1)
      ELSE lines1

\* A reader that hands the supplied cursor back when the file is missing.
readLogSliceKeepsCursor(file, cursorArg, maxBytesArg) ==
  LET maxBytes == IF maxBytesArg # NoArg THEN maxBytesArg[1] ELSE DEFAULT_MAX_BYTES IN
  IF ~file.exists
  THEN [cursor |-> IF cursorArg # NoArg THEN Max(0, cursorArg[1]) ELSE 0,
        size |-> 0, lines |-> <<>>, truncated |-> FALSE, reset |-> FALSE]
  ELSE LET size == Len(file.data)
           s    == SliceStart(size, cursorArg, maxBytes)
       IN  IF size = 0 \/ size <= s.start
           THEN [cursor |-> size, size |-> size, lines |-> <<>>,
                 truncated |-> s.truncated, reset |-> s.reset]
           ELSE [cursor |-> size, size |-> size,
                 lines |-> SliceLines(file.data, s.start, size),
                 truncated |-> s.truncated, reset |-> s.reset]

readLogSlice(file, cursorArg, maxBytesArg) ==
  LET maxBytes == IF maxBytesArg # NoArg THEN maxBytesArg[1] ELSE DEFAULT_MAX_BYTES IN
  IF ~file.exists
  THEN [cursor |-> 0, size |-> 0, lines |-> <<>>, truncated |-> FALSE,
        reset |-> FALSE]
  ELSE LET size == Len(file.data)
           s    == SliceStart(size, cursorArg, maxBytes)
       IN  IF size = 0 \/ size <= s.start
           THEN [cursor |-> size, size |-> size, lines |-> <<>>,
                 truncated |-> s.truncated, reset |-> s.reset]
           ELSE [cursor |-> size, size |-> size,
                 lines |-> SliceLines(file.data, s.start, size),
                 truncated |-> s.truncated, reset |-> s.reset]

readNewLines(file, cursor, maxBytesArg) ==
  LET result == readLogSlice(file, Arg(cursor), maxBytesArg) IN
  [lines |-> result.lines, newCursor |-> result.cursor,
   fileSize |-> result.size, reset |-> result.reset]

\* ------------------------------------------------------------------ parsers
\* String.prototype.trim over the model's one white-space character.
RECURSIVE TrimLeft(_)
TrimLeft(s) == IF s # <<>> /\ Head(s) = " " THEN TrimLeft(Tail(s)) ELSE s

RECURSIVE TrimRight(_)
TrimRight(s) ==
  IF s # <<>> /\ s[Len(s)] = " " THEN TrimRight(SubSeq(s, 1, Len(s) - 1)) ELSE s

\* A trim that removes leading white space only.
TrimStart(s) == TrimLeft(s)

Trim(s) == TrimRight(TrimLeft(s))

\* JavaScript values as JSON.parse produces them.  A string is a sequence of
\* symbols, an array a sequence of values, an object a function from Keys to
\* values (undefined for a key the object does not have).
Keys ==
  {"type", "version", "id", "timestamp", "message", "role", "content", "provider",
   "model", "text", "_meta", "date", "logLevelName", "logLevelId", "logLevel",
   "name", "subsystem", "msg", "0", "ts", "seq", "stage", "note", "error",
   "messageCount", "sessionId", "runId", "modelId", "other"}

Undef == [t |-> "undefined", s |-> <<>>, n |-> 0, o |-> <<>>]
Str(s) == [t |-> "string", s |-> s, n |-> 0, o |-> <<>>]
Num(n) == [t |-> "number", s |-> <<>>, n |-> n, o |-> <<>>]
Arr(items) == [t |-> "array", s |-> items, n |-> 0, o |-> <<>>]
Obj(o) == [t |-> "object", s |-> <<>>, n |-> 0, o |-> o]

EmptyObject == [k \in Keys |-> Undef]
With(o, key, val) == [o EXCEPT ![key] = val]

\* value.key and value?.key of a value that is not null or undefined.
Get(v, key) == IF v.t = "object" THEN v.o[key] ELSE Undef

\* ToBoolean.
Truthy(v) ==
  CASE v.t = "undefined" -> FALSE
    [] v.t = "string" -> v.s # <<>>
    [] v.t = "number" -> v.n # 0
    [] OTHER -> TRUE

\* A text of n symbols, no two neighbours alike.
TextOf(n) == [i \in 1..n |-> IF i % 2 = 1 THEN "a" ELSE "b"]

\* An ISO-8601 time as a producer writes it, a text that is no time, and the
\* time of ingestion (new Date().toISOString()).
IsoTime == <<"2024-01-01T12:00:00.000Z">>
NoTime == <<"soon">>
NowTime == <<"now">>

\* A message text longer than the preview, and a short one.
LongText == TextOf(PREVIEW_CHARS + MaxExtra)
ShortText == TextOf(MaxExtra)

\* The members an object text of the model can have: the symbol that stands
\* for the member's text, its key and the value JSON.parse gives it.
Member(key, val) == [key |-> key, val |-> val]

MemberTable ==
  \* any member no parser looks at, and a type no parser knows
     ("k" :> Member("other", Num(1)))
  @@ ("y" :> Member("type", Str(<<"custom">>)))
  \* session records
  @@ ("S" :> Member("type", Str(<<"session">>)))
  @@ ("M" :> Member("type", Str(<<"message">>)))
  @@ ("V" :> Member("version", Num(1)))
  @@ ("I" :> Member("id", Str(<<"session-123">>)))
  @@ ("T" :> Member("timestamp", Str(IsoTime)))
  @@ ("a" :> Member("message",
               Obj(With(With(With(EmptyObject, "role", Str(<<"user">>)),
                             "content", Str(LongText)),
                        "timestamp", Num(1)))))
  @@ ("b" :> Member("message",
               Obj(With(With(EmptyObject, "role", Str(<<"user">>)),
                        "content",
                        Arr(<<Obj(With(EmptyObject, "type", Str(<<"image">>))),
                              Obj(With(With(EmptyObject, "type", Str(<<"text">>)),
                                       "text", Str(LongText)))>>)))))
  @@ ("c" :> Member("message",
               Obj(With(With(With(EmptyObject, "role", Str(<<"user">>)),
                             "content", Str(ShortText)),
                        "timestamp", Str(NoTime)))))
  \* tslog records
  @@ ("m" :> Member("_meta",
               Obj(With(With(With(EmptyObject, "date", Str(IsoTime)),
                             "logLevelName", Str(<<"INFO">>)),
                        "name", Str(<<"gateway">>)))))
  @@ ("n" :> Member("_meta", Obj(With(EmptyObject, "logLevelName", Num(5)))))
  @@ ("o" :> Member("_meta", Obj(With(EmptyObject, "date", Str(NoTime)))))
  @@ ("D" :> Member("date", Str(IsoTime)))
  @@ ("g" :> Member("message", Str(LongText)))
  @@ ("s" :> Member("msg", Str(ShortText)))
  @@ ("z" :> Member("0", Str(ShortText)))
  @@ ("L" :> Member("logLevel", Num(4)))
  @@ ("R" :> Member("logLevel", Num(9)))
  @@ ("P" :> Member("_meta", Obj(With(EmptyObject, "logLevelId", Num(2)))))
  @@ ("W" :> Member("logLevelName", Str(<<"WARN">>)))
  @@ ("B" :> Member("subsystem", Str(<<"cron">>)))
  \* cache-trace records
  @@ ("t" :> Member("ts", Str(IsoTime)))
  @@ ("u" :> Member("ts", Str(NoTime)))
  @@ ("q" :> Member("seq", Num(1)))
  @@ ("G" :> Member("stage", Str(<<"session:loaded">>)))
  @@ ("N" :> Member("note", Str(LongText)))
  @@ ("O" :> Member("note", Num(5)))
  @@ ("A" :> Member("note", Arr(<<Str(ShortText)>>)))
  @@ ("E" :> Member("error", Str(LongText)))
  @@ ("C" :> Member("messageCount", Num(5)))

\* JSON.parse succeeds on a text that starts with "{" exactly when the text is
\* one object: "{", well-formed members, "}".
JsonMembers == DOMAIN MemberTable
JsonParses(t) ==
  /\ Len(t) >= 2
  /\ t[1] = "{"
  /\ t[Len(t)] = "}"
  /\ \A i \in 2..(Len(t) - 1) : t[i] \in JsonMembers

\* The object JSON.parse returns for an object text: of two members with the
\* same key the later one counts.
RECURSIVE ParseMembers(_, _)
ParseMembers(toks, o) ==
  IF toks = <<>> THEN o
  ELSE ParseMembers(Tail(toks),
                    With(o, MemberTable[Head(toks)].key, MemberTable[Head(toks)].val))

JsonParse(t) == Obj(ParseMembers(SubSeq(t, 2, Len(t) - 1), EmptyObject))

\* entry.type is truthy.
HasType(t) == Truthy(Get(JsonParse(t), "type"))

\* A parser's result: <<>> for null, <<event>> for an event, and the error of
\* a call that throws instead of returning.
Null == <<>>
Thrown(error) == <<[raised |-> error]>>
IsThrown(res) == res # <<>> /\ "raised" \in DOMAIN res[1]
IsEvent(res) == res # <<>> /\ ~IsThrown(res)

\* A slice that returns the whole text.
SliceWhole(s, n) == s

\* String.prototype.slice(0, n), also Array.prototype.slice(0, n).
Slice(s, n) == SubSeq(s, 1, Min(Len(s), n))

\* String.prototype.toLowerCase on the level names of the model.
LowerSym(c) ==
  CASE c = "INFO" -> "info"
    [] c = "WARN" -> "warn"
    [] OTHER -> c
ToLowerCase(s) == [i \in 1..Len(s) |-> LowerSym(s[i])]

\* `${value}` for the values the model puts into template literals.
Template(v) ==
  CASE v.t = "string" -> v.s
    [] v.t = "number" -> <<"number">>
    [] v.t = "undefined" -> <<"undefined">>
    [] OTHER -> <<"[object Object]">>

LOG_LEVEL_MAP ==
  (0 :> "silly") @@ (1 :> "trace") @@ (2 :> "debug") @@ (3 :> "info")
  @@ (4 :> "warn") @@ (5 :> "error") @@ (6 :> "fatal")

\* extractLogLevel: [ok, val]; not ok when toLowerCase is called on a value
\* that is not a string.
extractLogLevel(entry) ==
  LET metaName == Get(Get(entry, "_meta"), "logLevelName")
      name     == Get(entry, "logLevelName")
      metaId   == Get(Get(entry, "_meta"), "logLevelId")
      levelId  == IF metaId.t # "undefined" THEN metaId ELSE Get(entry, "logLevel")
  IN  IF Truthy(metaName)
      THEN [ok |-> metaName.t = "string", val |-> Str(ToLowerCase(metaName.s))]
      ELSE IF Truthy(name)
      THEN [ok |-> name.t = "string", val |-> Str(ToLowerCase(name.s))]
      ELSE IF levelId.t = "number" /\ levelId.n \in DOMAIN LOG_LEVEL_MAP
      THEN [ok |-> TRUE, val |-> Str(<<LOG_LEVEL_MAP[levelId.n]>>)]
      ELSE [ok |-> TRUE, val |-> Undef]

extractTimestamp(entry) ==
  LET metaDate == Get(Get(entry, "_meta"), "date")
      date     == Get(entry, "date")
  IN  IF Truthy(metaDate) THEN metaDate
      ELSE IF Truthy(date) /\ date.t = "string" THEN date
      ELSE Str(NowTime)

extractMessage(entry) ==
  LET message  == Get(entry, "message")
      msg      == Get(entry, "msg")
      firstArg == Get(entry, "0")
  IN  IF Truthy(message) /\ message.t = "string" THEN message
      ELSE IF Truthy(msg) /\ msg.t = "string" THEN msg
      ELSE IF firstArg.t = "string" THEN firstArg
      ELSE IF firstArg.t = "object" /\ Get(firstArg, "message").t = "string"
      THEN Get(firstArg, "message")
      ELSE Undef

extractSubsystem(entry) ==
  LET metaName  == Get(Get(entry, "_meta"), "name")
      subsystem == Get(entry, "subsystem")
  IN  IF Truthy(metaName) THEN metaName
      ELSE IF Truthy(subsystem) /\ subsystem.t = "string" THEN subsystem
      ELSE Undef

\* message?.slice(0, 500) of a string or of undefined.
PreviewOf(message) ==
  IF message.t = "string" THEN Str(Slice(message.s, PREVIEW_CHARS)) ELSE message

\* The fields of ParsedEvent that the parsers fill from the record, and
\* agentId, which only the session parser sets.
Event(ts, sourceType, sourceFile, eventType, level, sessionId, role, preview, raw) ==
  [ts |-> ts, sourceType |-> sourceType, sourceFile |-> sourceFile,
   eventType |-> eventType, level |-> level, sessionId |-> sessionId,
   role |-> role, messagePreview |-> preview, rawJson |-> raw, agentId |-> Undef]

parseSystemLogLine(line, sourceFile) ==
  LET trimmed == Trim(line) IN
  IF trimmed = <<>> \/ Head(trimmed) # "{" THEN Null
  ELSE IF ~JsonParses(trimmed) THEN Null
  ELSE LET entry     == JsonParse(trimmed)
           level     == extractLogLevel(entry)
           subsystem == extractSubsystem(entry)
       IN  IF ~level.ok THEN Thrown("TypeError")
           ELSE <<Event(extractTimestamp(entry), "system-log", sourceFile,
                        IF Truthy(subsystem) THEN <<"log:">> \o Template(subsystem)
                        ELSE <<"log">>,
                        level.val, Undef, Undef,
                        PreviewOf(extractMessage(entry)), trimmed)>>

isCacheTraceEvent(value) ==
  /\ Get(value, "ts").t = "string"
  /\ Get(value, "seq").t = "number"
  /\ Get(value, "stage").t = "string"

parseCacheTraceLine(line, sourceFile) ==
  LET trimmed == Trim(line) IN
  IF trimmed = <<>> \/ Head(trimmed) # "{" THEN Null
  ELSE IF ~JsonParses(trimmed) THEN Null
  ELSE LET entry == JsonParse(trimmed)
           note  == Get(entry, "note")
           error == Get(entry, "error")
           count == Get(entry, "messageCount")
           text  == IF Truthy(note) THEN note
                    ELSE IF Truthy(error) THEN Str(<<"error: ">> \o Template(error))
                    ELSE IF count.t # "undefined"
                    THEN Str(<<"messages: ">> \o Template(count))
                    ELSE Undef
       IN  IF ~isCacheTraceEvent(entry) THEN Null
           ELSE IF text.t \notin {"undefined", "string", "array"}
           THEN Thrown("TypeError")
           ELSE <<Event(Get(entry, "ts"), "cache-trace", sourceFile,
                        <<"cache:">> \o Template(Get(entry, "stage")),
                        Undef, Get(entry, "sessionId"), Undef,
                        IF text.t = "undefined" THEN Undef
                        ELSE [text EXCEPT !.s = Slice(text.s, PREVIEW_CHARS)],
                        trimmed)>>

\* A header check that asks for a timestamp as well.
isSessionHeaderTimed(value) ==
  /\ Get(value, "type") = Str(<<"session">>)
  /\ Get(value, "version").t = "number"
  /\ Get(value, "id").t = "string"
  /\ Get(value, "timestamp").t = "string"

isSessionHeader(value) ==
  /\ Get(value, "type") = Str(<<"session">>)
  /\ Get(value, "version").t = "number"
  /\ Get(value, "id").t = "string"

isSessionMessage(value) ==
  /\ Get(value, "type") = Str(<<"message">>)
  /\ Get(value, "message").t \in {"object", "array"}

RECURSIVE FirstTextBlock(_)
FirstTextBlock(blocks) ==
  IF blocks = <<>> THEN Undef
  ELSE IF /\ Head(blocks).t = "object"
          /\ Get(Head(blocks), "type") = Str(<<"text">>)
          /\ Get(Head(blocks), "text").t = "string"
       THEN Str(Slice(Get(Head(blocks), "text").s, PREVIEW_CHARS))
       ELSE FirstTextBlock(Tail(blocks))

extractTextPreview(content) ==
  IF content.t = "string" THEN Str(Slice(content.s, PREVIEW_CHARS))
  ELSE IF content.t # "array" THEN Undef
  ELSE FirstTextBlock(content.s)

\* new Date(value).toISOString(): [ok, val]; not ok (RangeError) when the
\* value is no time.
DateToISOString(v) ==
  IF v.t = "number" THEN [ok |-> TRUE, val |-> Str(<<"1970-01-01T00:00:00.001Z">>)]
  ELSE IF v.t = "string" /\ v.s = IsoTime THEN [ok |-> TRUE, val |-> v]
  ELSE [ok |-> FALSE, val |-> Undef]

\* The longest run of characters other than "/" from position i on.
RECURSIVE RunFrom(_, _)
RunFrom(path, i) ==
  IF i > Len(path) \/ path[i] = "/" THEN <<>>
  ELSE <<path[i]>> \o RunFrom(path, i + 1)

\* The group ([^/]+) of a match of agents\/([^/]+)\/sessions\/ that begins
\* at position i of path, <<>> when there is no match at i ("g" is the text
\* agents and "s" the text sessions).
AgentAt(path, i) ==
  LET id == RunFrom(path, i + 2) IN
  IF /\ i + 1 <= Len(path)
     /\ path[i] = "g"
     /\ path[i + 1] = "/"
     /\ id # <<>>
     /\ i + 4 + Len(id) <= Len(path)
     /\ SubSeq(path, i + 2 + Len(id), i + 4 + Len(id)) = <<"/", "s", "/">>
  THEN id ELSE <<>>

\* The agent of the last occurrence of agents/<id>/sessions/.
RECURSIVE ExecAgentLast(_, _)
ExecAgentLast(path, i) ==
  IF i < 1 THEN Undef
  ELSE IF AgentAt(path, i) # <<>> THEN Str(AgentAt(path, i))
  ELSE ExecAgentLast(path, i - 1)
extractAgentIdLast(sourceFile) == ExecAgentLast(sourceFile, Len(sourceFile))

\* sourceFile.match(/agents\/([^/]+)\/sessions\//): the first position,
\* from the left, at which the expression matches; its group is the id.
RECURSIVE ExecAgent(_, _)
ExecAgent(path, i) ==
  IF i > Len(path) THEN Undef
  ELSE IF AgentAt(path, i) # <<>> THEN Str(AgentAt(path, i))
  ELSE ExecAgent(path, i + 1)
extractAgentIdFromPath(sourceFile) == ExecAgent(sourceFile, 1)

parseSessionLine(line, sourceFile) ==
  LET trimmed == Trim(line) IN
  IF trimmed = <<>> \/ Head(trimmed) # "{" THEN Null
  ELSE IF ~JsonParses(trimmed) THEN Null
  ELSE IF ~HasType(trimmed) THEN Null
  ELSE LET entry == JsonParse(trimmed)
           agentId == extractAgentIdFromPath(sourceFile)
           msg   == Get(entry, "message")
           time  == IF Truthy(Get(msg, "timestamp"))
                    THEN DateToISOString(Get(msg, "timestamp"))
                    ELSE [ok |-> TRUE, val |-> Str(NowTime)]
       IN  IF isSessionHeader(entry)
           THEN <<[Event(Get(entry, "timestamp"), "session", sourceFile,
                        <<"session:start">>, Undef, Get(entry, "id"), Undef,
                        Undef, trimmed)
              EXCEPT !.agentId = agentId]>>
           ELSE IF isSessionMessage(entry)
           THEN IF ~time.ok THEN Thrown("RangeError")
                ELSE <<[Event(time.val, "session", sourceFile,
                             <<"session:message:">> \o Template(Get(msg, "role")),
                             Undef, Undef, Get(msg, "role"),
                             extractTextPreview(Get(msg, "content")), trimmed)
              EXCEPT !.agentId = agentId]>>
           ELSE <<[Event(Str(NowTime), "session", sourceFile,
                        <<"session:">> \o Template(Get(entry, "type")),
                        Undef, Undef, Undef, Undef, trimmed)
              EXCEPT !.agentId = agentId]>>

\* PARSERS[sourceType].parseLine
parseLine(sourceType, line, sourceFile) ==
  IF sourceType = "system-log" THEN parseSystemLogLine(line, sourceFile)
  ELSE IF sourceType = "cache-trace" THEN parseCacheTraceLine(line, sourceFile)
  ELSE parseSessionLine(line, sourceFile)

\* parseLines: the events of the lines that parse, in order; the error of a
\* parser that throws leaves the loop.
RECURSIVE parseLines(_, _, _)
parseLines(sourceType, lines, sourceFile) ==
  IF lines = <<>> THEN <<>>
  ELSE LET first == parseLine(sourceType, Head(lines), sourceFile) IN
       IF IsThrown(first) THEN first
       ELSE LET rest == parseLines(sourceType, Tail(lines), sourceFile) IN
            IF IsThrown(rest) THEN rest ELSE first \o rest

\* ------------------------------------------------------------ path patterns
StartsWith(s, pre) == Len(pre) <= Len(s) /\ SubSeq(s, 1, Len(pre)) = pre
EndsWith(s, suf) ==
  Len(suf) <= Len(s) /\ SubSeq(s, Len(s) - Len(suf) + 1, Len(s)) = suf
Includes(s, sub) ==
  \E i \in 0..(Len(s) - Len(sub)) : SubSeq(s, i + 1, i + Len(sub)) = sub
HasStar(s) == \E i \in 1..Len(s) : s[i] = "*"
HasStarStar(s) == Includes(s, <<"*", "*">>)

\* The text before the first "**" and the text between the first and the
\* second "**" (or to the end): parts[0] and parts[1] of pattern.split("**").
FirstStarStar(s) == CHOOSE i \in 1..(Len(s) - 1) :
  /\ SubSeq(s, i, i + 1) = <<"*", "*">>
  /\ \A j \in 1..(i - 1) : SubSeq(s, j, j + 1) # <<"*", "*">>
Part0(s) == IF HasStarStar(s) THEN SubSeq(s, 1, FirstStarStar(s) - 1) ELSE s
Rest1(s) == SubSeq(s, FirstStarStar(s) + 2, Len(s))
Part1(s) == Part0(Rest1(s))

\* The regular expression ^...$ built from a single-* pattern: "*" is [^/]*,
\* every other character of the model stands for itself.
RECURSIVE RegexTest(_, _)
RegexTest(pat, str) ==
  IF pat = <<>> THEN str = <<>>
  ELSE IF Head(pat) = "*"
       THEN \/ RegexTest(Tail(pat), str)
            \/ str # <<>> /\ Head(str) # "/" /\ RegexTest(pat, Tail(str))
       ELSE str # <<>> /\ Head(str) = Head(pat) /\ RegexTest(Tail(pat), Tail(str))

matchesPattern(filePath, pattern) ==
  IF ~HasStar(pattern)
  THEN filePath = pattern \/ StartsWith(filePath, pattern \o <<"/">>)
  ELSE IF HasStarStar(pattern)
  THEN LET p0     == Part0(pattern)
           p1     == Part1(pattern)
           prefix == IF p0 # <<>> /\ p0[Len(p0)] = "/"
                     THEN SubSeq(p0, 1, Len(p0) - 1) ELSE p0
           suffix == IF p1 # <<>> /\ Head(p1) = "/" THEN Tail(p1) ELSE p1
       IN  /\ (prefix = <<>> \/ StartsWith(filePath, prefix))
           /\ (suffix = <<>> \/ EndsWith(filePath, suffix))
  ELSE RegexTest(pattern, filePath)

\* ----------------------------------------------------------- configuration
PathA == <<"/", "a">>
PathB == <<"/", "b">>
Paths == {PathA, PathB}
\* The files of the resolution scenarios, in readdir order: a session file,
\* another file of its directory, a .jsonl file of a directory below it, a
\* .jsonl file outside a sessions directory, the cache trace, a system log
\* and another file of its directory.
TreeOrder ==
  << <<"/", "r", "/", "g", "/", "x", "/", "s", "/", "x", "j">>,
     <<"/", "r", "/", "g", "/", "x", "/", "s", "/", "x">>,
     <<"/", "r", "/", "g", "/", "x", "/", "s", "/", "g", "/", "x", "j">>,
     <<"/", "r", "/", "g", "/", "x", "j">>,
     <<"/", "r", "/", "l", "/", "c", "j">>,
     <<"/", "t", "/", "o", "/", "o", "x", "e">>,
     <<"/", "t", "/", "o", "/", "x">> >>
\* readdir order of the model's file system.
PathOrder == <<PathA, PathB>> \o TreeOrder

\* options.watchedPaths of the modelled instance.
watchedPaths ==
  << [pattern |-> PathA, sourceType |-> "system-log"],
     [pattern |-> PathB, sourceType |-> "session"] >>

\* The records the log producers write (without the line break).
Records == { <<"{", "}">>, <<"{", "y", "}">> }

\* A missing source type (null).
NoType == ""

\* The source type of the last descriptor whose pattern matches.
RECURSIVE LastMatch(_, _)
LastMatch(wps, filePath) ==
  IF wps = <<>> THEN NoType
  ELSE IF matchesPattern(filePath, wps[Len(wps)].pattern)
       THEN wps[Len(wps)].sourceType
       ELSE LastMatch(SubSeq(wps, 1, Len(wps) - 1), filePath)

\* getSourceTypeForFile / createWatcher.resolveSourceType: the first
\* descriptor, in list order, whose pattern matches.
RECURSIVE FirstMatch(_, _)
FirstMatch(wps, filePath) ==
  IF wps = <<>> THEN NoType
  ELSE IF matchesPattern(filePath, Head(wps).pattern) THEN Head(wps).sourceType
  ELSE FirstMatch(Tail(wps), filePath)

getSourceTypeForFile(filePath) == FirstMatch(watchedPaths, filePath)

\* getDefaultWatchedPaths(stateDir): the descriptors of an instance made
\* without watchedPaths. A path is its text cut into the separator "/" and
\* names: "g" agents, "s" sessions, "j" .jsonl, "l" logs, "c" cache-trace,
\* "t" tmp, "o" openclaw, "e" .log.
getDefaultWatchedPaths(stateDir) ==
  << [pattern    |-> stateDir \o <<"/", "g", "/", "*", "*", "/", "s", "/", "*", "j">>,
      sourceType |-> "session"],
     [pattern    |-> stateDir \o <<"/", "l", "/", "c", "j">>,
      sourceType |-> "cache-trace"],
     [pattern    |-> <<"/", "t", "/", "o", "/", "o", "*", "e">>,
      sourceType |-> "system-log"] >>
resolveSourceType(filePath) == FirstMatch(watchedPaths, filePath)

\* ------------------------------------------------------------- file system
Existing(fs) == {p \in DOMAIN fs : fs[p].exists}
IsFile(fs, path) == path \in Existing(fs)
IsDirectory(fs, dir) == \E p \in Existing(fs) : StartsWith(p, dir \o <<"/">>)

\* walkDirectory: the files below dir.
walkDirectory(fs, dir) ==
  SelectSeq(PathOrder, LAMBDA p : /\ p \in Existing(fs)
                                  /\ StartsWith(p, dir \o <<"/">>))

\* s without its trailing (leading) slashes.
RECURSIVE StripTrailingSlashes(_)
StripTrailingSlashes(s) ==
  IF s # <<>> /\ s[Len(s)] = "/"
  THEN StripTrailingSlashes(SubSeq(s, 1, Len(s) - 1)) ELSE s
RECURSIVE StripLeadingSlashes(_)
StripLeadingSlashes(s) ==
  IF s # <<>> /\ Head(s) = "/" THEN StripLeadingSlashes(Tail(s)) ELSE s

\* parts[0] and parts[1] of s.split("*").
FirstStar(s) == CHOOSE i \in 1..Len(s) : s[i] = "*" /\ \A j \in 1..(i - 1) : s[j] # "*"
StarPart0(s) == IF HasStar(s) THEN SubSeq(s, 1, FirstStar(s) - 1) ELSE s
StarPart1(s) ==
  IF HasStar(s) THEN StarPart0(SubSeq(s, FirstStar(s) + 1, Len(s))) ELSE <<>>

SuffixMatches(file, suffix) ==
  IF HasStar(suffix)
  THEN LET requiredPath == StripTrailingSlashes(StarPart0(suffix))
           requiredExt  == StarPart1(suffix)
           matchesPath  == requiredPath = <<>>
                           \/ Includes(file, <<"/">> \o requiredPath \o <<"/">>)
           matchesExt   == requiredExt = <<>> \/ EndsWith(file, requiredExt)
       IN  matchesPath /\ matchesExt
  ELSE EndsWith(file, suffix)

resolveGlobPattern(fs, pattern) ==
  IF ~HasStar(pattern)
  THEN IF IsFile(fs, pattern) THEN <<pattern>>
       ELSE IF IsDirectory(fs, pattern) THEN walkDirectory(fs, pattern)
       ELSE <<>>
  ELSE LET baseDir == StripTrailingSlashes(Part0(pattern))
           suffix  == IF HasStarStar(pattern)
                      THEN StripLeadingSlashes(Part1(pattern)) ELSE <<>>
       IN  IF baseDir = <<>> THEN <<>>
           ELSE IF ~IsDirectory(fs, baseDir) THEN <<>>
           ELSE IF suffix = <<>> THEN walkDirectory(fs, baseDir)
           ELSE SelectSeq(walkDirectory(fs, baseDir),
                          LAMBDA file : SuffixMatches(file, suffix))

\* resolveWatchedFiles: every descriptor's files, tagged with its source type.
RECURSIVE resolveFrom(_, _)
resolveFrom(fs, wps) ==
  IF wps = <<>> THEN <<>>
  ELSE LET found == resolveGlobPattern(fs, Head(wps).pattern) IN
       [i \in 1..Len(found) |->
          [path |-> found[i], sourceType |-> Head(wps).sourceType]]
       \o resolveFrom(fs, Tail(wps))

resolveWatchedFiles(fs) == resolveFrom(fs, watchedPaths)

\* ------------------------------------------------------------- event store
NoRow == [present |-> FALSE, sourceType |-> NoType, byteOffset |-> 0, fileSize |-> 0]

\* getTrackedFile: the row of the path, or NoRow (null).
getTrackedFile(trk, path) == trk[path]

\* updateTrackedFile: insert, or on conflict overwrite offset and size.
updateTrackedFile(trk, path, sourceType, byteOffset, fileSize) ==
  [trk EXCEPT ![path] =
     [present |-> TRUE,
      sourceType |-> IF trk[path].present THEN trk[path].sourceType ELSE sourceType,
      byteOffset |-> byteOffset,
      fileSize |-> fileSize]]

\* A store failure: none (batch 0), or row `row` of batch `batch` fails.
NoFail == [batch |-> 0, row |-> 0]

\* Rows 1..n of a batch inserted inside the open transaction.
RowsRun(rows, batch, n) == rows \o SubSeq(batch, 1, n)

\* An insertEventsBatch whose catch block rethrows without ROLLBACK: the rows
\* that ran before the failing one stay.
insertEventsBatchNoRollback(open, rows, batch, failRow) ==
  IF batch = <<>> THEN [rows |-> rows, ok |-> TRUE]
  ELSE IF ~open THEN [rows |-> rows, ok |-> FALSE]
  ELSE IF failRow = 0 THEN [rows |-> RowsRun(rows, batch, Len(batch)), ok |-> TRUE]
  ELSE [rows |-> RowsRun(rows, batch, failRow - 1), ok |-> FALSE]

\* insertEventsBatch: BEGIN, one insert per event, COMMIT; on a failing row
\* ROLLBACK and rethrow.  `rows` is the table before the call.
insertEventsBatch(open, rows, batch, failRow) ==
  IF batch = <<>> THEN [rows |-> rows, ok |-> TRUE]
  ELSE IF ~open THEN [rows |-> rows, ok |-> FALSE]
  ELSE IF failRow = 0 THEN [rows |-> RowsRun(rows, batch, Len(batch)), ok |-> TRUE]
  ELSE [rows |-> rows, ok |-> FALSE]

NumBatches(n, size) == (n + size - 1) \div size

\* insertEvents: the batches of `size` events from index i on, in order; a
\* failing batch ends the loop with the earlier batches committed.
RECURSIVE insertFrom(_, _, _, _, _, _)
insertFrom(open, rows, evs, size, i, fail) ==
  IF (i - 1) * size >= Len(evs) THEN [rows |-> rows, ok |-> TRUE]
  ELSE LET batch == SubSeq(evs, (i - 1) * size + 1, Min(i * size, Len(evs)))
           res   == insertEventsBatch(open, rows, batch,
                                      IF fail.batch = i THEN fail.row ELSE 0)
       IN  IF res.ok THEN insertFrom(open, res.rows, evs, size, i + 1, fail)
           ELSE res

insertEvents(open, rows, evs, size, fail) == insertFrom(open, rows, evs, size, 1, fail)

\* ------------------------------------------------------------------- state
VARIABLES
  files,        \* files[p]: the file at path p (presence and bytes)
  wrest,        \* wrest[p]: bytes of a record in progress still to be written
  notifs,       \* notifs[p]: change notifications the watcher has yet to deliver
  tracked,      \* tracked_files table: tracked[p] is the row of path p
  events,       \* events table: events[p] are the rows with source_file p
  dbOpen,       \* the store handle has not been released
  failBudget,   \* store failures still to be injected
  batchSize,    \* this.batchSize
  watcher,      \* this.watcher: the id of the attached watcher, 0 for null
  live,         \* the ids of the watchers created and not yet closed
  pendingFiles, \* this.pendingFiles, in insertion order
  ingestTimer,  \* this.ingestTimer is armed (not null)
  timers,       \* setTimeout callbacks created and neither fired nor cleared
  processing,   \* this.processing
  closed,       \* this.closed
  tasks,        \* the asynchronous calls in flight, by slot
  calls,        \* calls the owner may still make (Unlimited: any number)
  ret,          \* observer: how the latest call of the owner came back
  last,         \* observer: the ingestFile execution that finished last
  clean,        \* observer: an ingestFile of p returned normally, no write since its start
  burst,        \* observer: notifications of p received since its last debounced run began
  runs,         \* observer: debounced runs of p begun since its latest notification
  rd,           \* the tail-reader scenario
  fx,           \* the parser and pattern scenarios: the inputs of a call and its results
  unlinks       \* unlinks[p]: unlink notifications yet to deliver; observer: one was delivered

vars == <<files, wrest, notifs, tracked, events, dbOpen, failBudget, batchSize,
          watcher, live, pendingFiles, ingestTimer, timers, processing, closed,
          tasks, calls, ret, last, clean, burst, runs, rd, fx, unlinks>>

envVars == <<files, wrest, notifs>>
storeVars == <<tracked, events, dbOpen, failBudget>>
obsVars == <<last, clean, burst, runs>>

Unlimited == 0 - 1
NoUnlinks == [p \in Paths |-> [pending |-> 0, delivered |-> FALSE]]
\* The surroundings take one more step (no limit when calls is Unlimited).
OwnerCall == calls # 0 /\ calls' = (IF calls > 0 THEN calls - 1 ELSE calls)

\* Slots of processPendingFiles bodies and of calls made by the owner.
PassSlots == {"d1", "d2"}
ApiSlots == {"a1", "a2"}
Slots == PassSlots \cup ApiSlots

IdleTask ==
  [kind |-> "none", pc |-> "idle", files |-> <<>>, path |-> <<>>,
   sourceType |-> NoType, cursor |-> 0, stale |-> FALSE, idem |-> FALSE, n |-> 0,
   wid |-> 0]

NoLast ==
  [path |-> <<>>, kind |-> "none", status |-> "none", lines |-> 0, inserted |-> 0,
   cursor |-> 0, before |-> NoRow, after |-> NoRow, newCursor |-> 0, fileSize |-> 0,
   len |-> 0, idem |-> FALSE, stale |-> FALSE, parsed |-> 0, n |-> 0,
   fail |-> NoFail, todo |-> <<>>, next |-> <<>>, raised |-> FALSE]

NoRd == [pc |-> "off"]
NoFx == [pc |-> "off"]

\* How a call came back: it threw, it returned, or it is pending at an await;
\* `closed` is this.closed when the call was made.
NoRet == [op |-> "none", out |-> "none", closed |-> FALSE]
Ret(op, out) == [op |-> op, out |-> out, closed |-> closed]

\* The state after construction with options.batchSize among `sizes`; the
\* store will fail `budget` times.
InitWith(budget, sizes, ncalls) ==
  /\ files = [p \in Paths |-> NoFile]
  /\ wrest = [p \in Paths |-> <<>>]
  /\ notifs = [p \in Paths |-> 0]
  /\ tracked = [p \in Paths |-> NoRow]
  /\ events = [p \in Paths |-> <<>>]
  /\ dbOpen = TRUE
  /\ failBudget = budget
  /\ batchSize \in sizes
  /\ watcher = 0
  /\ live = {}
  /\ pendingFiles = <<>>
  /\ ingestTimer = FALSE
  /\ timers = 0
  /\ processing = FALSE
  /\ closed = FALSE
  /\ tasks = [t \in Slots |-> IdleTask]
  /\ calls = ncalls
  /\ ret = NoRet
  /\ last = NoLast
  /\ clean = [p \in Paths |-> FALSE]
  /\ burst = [p \in Paths |-> 0]
  /\ runs = [p \in Paths |-> 0]
  /\ rd = NoRd
  /\ unlinks = NoUnlinks
  /\ fx = NoFx

Init == InitWith(MaxFailures, {DEFAULT_BATCH_SIZE}, MaxCalls)

\* A store that never fails.
InitSound == InitWith(0, {DEFAULT_BATCH_SIZE}, Unlimited)

\* Small configured batch sizes.
InitBatch == InitWith(MaxFailures, 1..MaxBatchSize, Unlimited)

\* ------------------------------------------------------------ log producers
\* A producer appends `bytes` to the file at p (creating it), leaving `rest`
\* of the record to a later append.  An attached watcher will report it.
Write(p, bytes, rest) ==
  /\ Len(files[p].data) + Len(bytes) + Len(rest) <= MaxFileLen
  /\ files' = [files EXCEPT ![p] = FileOf(files[p].data \o bytes)]
  /\ wrest' = [wrest EXCEPT ![p] = rest]
  /\ notifs' = [notifs EXCEPT ![p] = Min(@ + Cardinality(live), MaxNotifs)]
  /\ tasks' = [t \in Slots |->
                 IF tasks[t].pc = "read" /\ tasks[t].path = p
                 THEN [tasks[t] EXCEPT !.stale = TRUE] ELSE tasks[t]]
  /\ clean' = [clean EXCEPT ![p] = FALSE]
  /\ OwnerCall
  /\ UNCHANGED <<storeVars, batchSize, watcher, live, pendingFiles, ingestTimer,
                 timers, processing, closed, ret, last, burst, runs, rd, fx, unlinks>>

\* A whole record and its line break in one append.
WriteRecord(p) ==
  /\ wrest[p] = <<>>
  /\ \E rec \in Records : Write(p, rec \o <<NL>>, <<>>)

\* The first k bytes of a record; the rest and the line break come later.
WritePartial(p) ==
  /\ wrest[p] = <<>>
  /\ \E rec \in Records : \E k \in 1..Len(rec) :
       Write(p, SubSeq(rec, 1, k), SubSeq(rec, k + 1, Len(rec)) \o <<NL>>)

\* The rest of the record in progress.
WriteRest(p) ==
  /\ wrest[p] # <<>>
  /\ Write(p, wrest[p], <<>>)

\* A producer (or a log rotation) removes the file at p.  An attached watcher
\* will report it.
Unlink(p) ==
  /\ files[p].exists
  /\ files' = [files EXCEPT ![p] = NoFile]
  /\ wrest' = [wrest EXCEPT ![p] = <<>>]
  /\ unlinks' = [unlinks EXCEPT ![p].pending = Min(@ + Cardinality(live), MaxNotifs)]
  /\ tasks' = [t \in Slots |->
                 IF tasks[t].pc = "read" /\ tasks[t].path = p
                 THEN [tasks[t] EXCEPT !.stale = TRUE] ELSE tasks[t]]
  /\ clean' = [clean EXCEPT ![p] = FALSE]
  /\ OwnerCall
  /\ UNCHANGED <<notifs, storeVars, batchSize, watcher, live, pendingFiles, ingestTimer,
                 timers, processing, closed, ret, last, burst, runs, rd, fx>>

\* ---------------------------------------------------------------- ingestor
\* An array push in place of Set.prototype.add.
SetAddDuplicates(set, p) == Append(set, p)

\* Set.prototype.add on the insertion-ordered pending set.
SetAdd(set, p) == IF \E i \in 1..Len(set) : set[i] = p THEN set ELSE Append(set, p)

\* Array.from(this.pendingFiles) as the work list of a pass.
PassList(pending) == [i \in 1..Len(pending) |-> [path |-> pending[i], sourceType |-> NoType]]

\* A guard that forgets the in-flight flag.
PassGuardNoFlag == closed

\* The guard of processPendingFiles: return without doing anything.
PassGuard == closed \/ processing

\* A scheduleIngest that sets a timeout whether or not one is armed.
scheduleIngestUnguarded(armed, out) == [armed |-> TRUE, out |-> Min(out + 1, MaxTimers)]

\* scheduleIngest: nothing when a timer is armed, else a new timeout whose
\* handle is kept in this.ingestTimer.
scheduleIngest(armed, out) ==
  IF armed THEN [armed |-> armed, out |-> out]
  ELSE [armed |-> TRUE, out |-> Min(out + 1, MaxTimers)]

\* A finally block that does not schedule another run.
PassFinallyNoRearm(timerNow, outNow, pendNow) == [armed |-> timerNow, out |-> outNow]

\* What the finally block of processPendingFiles leaves of the timer.
PassFinallyTimer(timerNow, outNow, pendNow) ==
  IF Len(pendNow) > 0 /\ ~closed THEN scheduleIngest(timerNow, outNow)
  ELSE [armed |-> timerNow, out |-> outNow]

\* A loop without try/catch around ingestFile: the error leaves the loop.
LoopAfterNoCatch(kind, fl, status) ==
  IF status = "failed" THEN [files |-> <<>>, raised |-> TRUE]
  ELSE [files |-> fl, raised |-> FALSE]

\* After an ingestFile that ended with `status`: the work list the caller
\* goes on with, and whether the error reaches the caller's caller.  The
\* loops of ingestExisting and processPendingFiles catch and log it; a direct
\* ingestFile call rejects.
LoopAfter(kind, fl, status) ==
  [files |-> fl, raised |-> kind = "file" /\ status = "failed"]

\* The source type a loop of `kind` gives ingestFile for entry f.
TypeOf(kind, f) == IF kind = "pass" THEN getSourceTypeForFile(f.path) ELSE f.sourceType

\* The work list from the first entry whose ingestFile reaches its read:
\* a pass breaks once closed and skips paths without a source type,
\* ingestFile returns 0 at once when closed.
RECURSIVE LoopNext(_, _)
LoopNext(kind, fl) ==
  IF fl = <<>> \/ closed THEN <<>>
  ELSE IF TypeOf(kind, Head(fl)) = NoType THEN LoopNext(kind, Tail(fl))
  ELSE fl

\* A pass that re-reads the whole file whatever the stored cursor is.
BeginFileFromZero(kind, fl, trk, cl) ==
  LET f == Head(fl)
  IN  [kind |-> kind, pc |-> "read", files |-> Tail(fl), path |-> f.path,
       sourceType |-> TypeOf(kind, f), cursor |-> 0,
       stale |-> FALSE, idem |-> cl[f.path], n |-> 0, wid |-> 0]

\* ingestFile up to its await: the stored cursor, 0 when there is no row.
BeginFile(kind, fl, trk, cl) ==
  LET f       == Head(fl)
      row     == getTrackedFile(trk, f.path)
  IN  [kind |-> kind, pc |-> "read", files |-> Tail(fl), path |-> f.path,
       sourceType |-> TypeOf(kind, f),
       cursor |-> IF row.present THEN row.byteOffset ELSE 0,
       stale |-> FALSE, idem |-> cl[f.path], n |-> 0, wid |-> 0]

\* ingestFile after a successful parse and the insert of its events (ins):
\* the tracked file is upserted after a successful insert (always: whether or
\* not the insert succeeded).
AfterInsert(always, tk, r, ins, trk, open) ==
  IF always
  THEN [rows |-> ins.rows,
        tracked |-> updateTrackedFile(trk, tk.path, tk.sourceType,
                                      r.newCursor, r.fileSize),
        status |-> IF ~ins.ok \/ ~open THEN "failed" ELSE "ok"]
  ELSE IF ~ins.ok \/ ~open
  THEN [rows |-> ins.rows, tracked |-> trk, status |-> "failed"]
  ELSE [rows |-> ins.rows,
        tracked |-> updateTrackedFile(trk, tk.path, tk.sourceType,
                                      r.newCursor, r.fileSize),
        status |-> "ok"]

\* ingestFile after parseLines (parsed): a parser that threw ends the call.
AfterParse(always, tk, r, parsed, rows, trk, open, size, fail) ==
  IF IsThrown(parsed)
  THEN [rows |-> rows, tracked |-> trk, status |-> "failed"]
  ELSE AfterInsert(always, tk, r,
                   IF Len(parsed) > 0
                   THEN insertEvents(open, rows, parsed, size, fail)
                   ELSE [rows |-> rows, ok |-> TRUE],
                   trk, open)

\* ingestFile after readNewLines (r): nothing to do without new lines.
AfterRead(always, tk, r, rows, trk, open, size, fail) ==
  IF Len(r.lines) = 0
  THEN [rows |-> rows, tracked |-> trk, status |-> "zero"]
  ELSE AfterParse(always, tk, r, parseLines(tk.sourceType, r.lines, tk.path),
                  rows, trk, open, size, fail)

\* An ingestFile that upserts the tracked file whether or not the insert
\* succeeded.
ingestFileUpsertAlways(tk, file, rows, trk, open, size, fail) ==
  AfterRead(TRUE, tk, readNewLines(file, tk.cursor, NoArg),
            rows, trk, open, size, fail)

\* ingestFile from the return of readNewLines on: parse, insert, upsert.
ingestFileResume(tk, file, rows, trk, open, size, fail) ==
  AfterRead(FALSE, tk, readNewLines(file, tk.cursor, NoArg),
            rows, trk, open, size, fail)

\* The store failures that can be injected into the insert of n events: a
\* row of a batch.
FailChoices(n) ==
  {NoFail} \cup
  (IF failBudget > 0 /\ dbOpen
   THEN {f \in [batch : 1..NumBatches(n, batchSize), row : 1..Min(batchSize, n)] :
           (f.batch - 1) * batchSize + f.row <= n}
   ELSE {})

\* The loop of task t goes on with work list fl: the next ingestFile begins,
\* or the call ends (a pass clears the flag and re-arms the timer when paths
\* are pending, startWatching attaches the watcher).
LoopStep(t, kind, fl, trk, cl, timerNow, outNow, pendNow) ==
  LET rest == LoopNext(kind, fl) IN
  IF rest # <<>>
  THEN /\ tasks' = [tasks EXCEPT ![t] =
                      [BeginFile(kind, rest, trk, cl) EXCEPT
                         !.n = IF kind = "pass" THEN burst[Head(rest).path] ELSE 0]]
       /\ ingestTimer' = timerNow
       /\ timers' = outNow
       /\ IF kind = "pass"
          THEN /\ burst' = [burst EXCEPT ![Head(rest).path] = 0]
               /\ runs' = [runs EXCEPT ![Head(rest).path] = Min(@ + 1, 2)]
          ELSE UNCHANGED <<burst, runs>>
       /\ processing' = (IF kind = "pass" THEN TRUE ELSE processing)
       /\ UNCHANGED <<watcher, live>>
  ELSE /\ tasks' = [tasks EXCEPT ![t] = IdleTask]
       /\ UNCHANGED <<burst, runs>>
       /\ IF kind = "pass"
          THEN /\ processing' = FALSE
               /\ ingestTimer' = PassFinallyTimer(timerNow, outNow, pendNow).armed
               /\ timers' = PassFinallyTimer(timerNow, outNow, pendNow).out
               /\ UNCHANGED <<watcher, live>>
          ELSE IF kind = "start"
          THEN LET w == CHOOSE i \in 1..(MaxWatchers + 1) : i \notin live IN
               /\ watcher' = w
               /\ live' = live \cup {w}
               /\ ingestTimer' = timerNow
               /\ timers' = outNow
               /\ UNCHANGED processing
          ELSE /\ ingestTimer' = timerNow
               /\ timers' = outNow
               /\ UNCHANGED <<watcher, live, processing>>

FreeSlot(S) == CHOOSE t \in S : tasks[t].kind = "none"
HasFree(S) == \E t \in S : tasks[t].kind = "none"

\* The paths of a work list.
PathsOf(fl) == [i \in 1..Len(fl) |-> fl[i].path]

\* The watcher delivers a change (or add) notification of p: emitEvent
\* resolves the source type, onFileChange queues the path and arms the timer.
OnFileChange(p) ==
  /\ notifs[p] > 0
  /\ live # {}
  /\ notifs' = [notifs EXCEPT ![p] = @ - 1]
  /\ IF resolveSourceType(p) = NoType
     THEN UNCHANGED <<pendingFiles, ingestTimer, timers, burst, runs>>
     ELSE /\ pendingFiles' = SetAdd(pendingFiles, p)
          /\ ingestTimer' = scheduleIngest(ingestTimer, timers).armed
          /\ timers' = scheduleIngest(ingestTimer, timers).out
          /\ burst' = [burst EXCEPT ![p] = Min(@ + 1, MaxNotifs)]
          /\ runs' = [runs EXCEPT ![p] = 0]
  /\ UNCHANGED <<files, wrest, storeVars, batchSize, watcher, live, processing,
                 closed, tasks, calls, ret, last, clean, rd, fx, unlinks>>

\* A timeout fires: the callback clears this.ingestTimer and calls
\* processPendingFiles.
TimerFire ==
  /\ timers > 0
  /\ IF PassGuard
     THEN /\ ingestTimer' = FALSE
          /\ timers' = timers - 1
          /\ UNCHANGED <<pendingFiles, processing, tasks, burst, runs, watcher, live>>
     ELSE /\ HasFree(PassSlots)
          /\ pendingFiles' = <<>>
          /\ LoopStep(FreeSlot(PassSlots), "pass", PassList(pendingFiles),
                      tracked, clean, FALSE, timers - 1, <<>>)
  /\ UNCHANGED <<envVars, storeVars, batchSize, closed, calls, ret, last, clean, rd, fx, unlinks>>

\* The end of the ingestFile of task t: what it read (r), the number of its
\* parsed events, the store failure injected and its result (res) go to the
\* tables and to the loop that called it.
IngestDone(t, r, nparsed, fail, res) ==
  LET tk   == tasks[t]
      p    == tk.path
      la   == LoopAfter(tk.kind, tk.files, res.status)
      todo == LoopNext(tk.kind, tk.files)
      rest == LoopNext(tk.kind, la.files)
  IN  /\ events' = [events EXCEPT ![p] = res.rows]
      /\ tracked' = res.tracked
      /\ failBudget' = IF fail.batch > 0 THEN failBudget - 1 ELSE failBudget
      /\ last' = [path |-> p, kind |-> tk.kind, status |-> res.status,
                  lines |-> Len(r.lines),
                  inserted |-> Len(res.rows) - Len(events[p]),
                  cursor |-> tk.cursor,
                  before |-> tracked[p], after |-> res.tracked[p],
                  newCursor |-> r.newCursor, fileSize |-> r.fileSize,
                  len |-> Len(files[p].data),
                  idem |-> tk.idem, stale |-> tk.stale,
                  parsed |-> nparsed, n |-> tk.n,
                  fail |-> fail, todo |-> PathsOf(todo),
                  next |-> IF rest = <<>> THEN <<>> ELSE Head(rest).path,
                  raised |-> la.raised]
      /\ clean' = [clean EXCEPT ![p] =
                     res.status # "failed" /\ ~tk.stale]
      /\ LoopStep(t, tk.kind, la.files, res.tracked,
                  [clean EXCEPT ![p] = res.status # "failed" /\ ~tk.stale],
                  ingestTimer, timers, pendingFiles)

\* The store failure of the ingestFile of task t is chosen.
IngestParsed(t, r, nparsed) ==
  \E fail \in FailChoices(nparsed) :
    IngestDone(t, r, nparsed, fail,
               ingestFileResume(tasks[t], files[tasks[t].path],
                                events[tasks[t].path], tracked, dbOpen, batchSize,
                                fail))

\* The lines read by the ingestFile of task t are parsed.
IngestRead(t, r) ==
  IngestParsed(t, r, Len(parseLines(tasks[t].sourceType, r.lines, tasks[t].path)))

\* readNewLines returns to the ingestFile of task t, which parses, inserts
\* and upserts; the error of a failed insert is caught by the loop (or
\* reaches the caller of a direct ingestFile), and the loop goes on.
IngestStep(t) ==
  /\ tasks[t].pc = "read"
  /\ IngestRead(t, readNewLines(files[tasks[t].path], tasks[t].cursor, NoArg))
  /\ UNCHANGED <<envVars, dbOpen, batchSize, pendingFiles, closed, calls, ret, rd, fx, unlinks>>

\* startWatching(): throws when closed, returns when a watcher is attached;
\* else ingestExisting begins and awaits resolveWatchedFiles.
CallStartWatching ==
  /\ OwnerCall
  /\ IF closed
     THEN ret' = Ret("startWatching", "throws") /\ UNCHANGED tasks
     ELSE IF watcher # 0
     THEN ret' = Ret("startWatching", "returns") /\ UNCHANGED tasks
     ELSE /\ Cardinality(live) < MaxWatchers
          /\ HasFree(ApiSlots)
          /\ tasks' = [tasks EXCEPT ![FreeSlot(ApiSlots)] =
                         [IdleTask EXCEPT !.kind = "start", !.pc = "resolve"]]
          /\ ret' = Ret("startWatching", "pending")
  /\ UNCHANGED <<envVars, storeVars, batchSize, watcher, live, pendingFiles,
                 ingestTimer, timers, processing, closed, obsVars, rd, fx, unlinks>>

\* ingestExisting() called by the owner: throws when closed.
CallIngestExisting ==
  /\ OwnerCall
  /\ IF closed
     THEN ret' = Ret("ingestExisting", "throws") /\ UNCHANGED tasks
     ELSE /\ HasFree(ApiSlots)
          /\ tasks' = [tasks EXCEPT ![FreeSlot(ApiSlots)] =
                         [IdleTask EXCEPT !.kind = "existing", !.pc = "resolve"]]
          /\ ret' = Ret("ingestExisting", "pending")
  /\ UNCHANGED <<envVars, storeVars, batchSize, watcher, live, pendingFiles,
                 ingestTimer, timers, processing, closed, obsVars, rd, fx, unlinks>>

\* resolveWatchedFiles returns to ingestExisting, whose loop begins.
Resolve(t) ==
  /\ tasks[t].pc = "resolve"
  /\ LoopStep(t, tasks[t].kind, resolveWatchedFiles(files), tracked, clean,
              ingestTimer, timers, pendingFiles)
  /\ UNCHANGED <<envVars, storeVars, batchSize, pendingFiles, closed, calls, ret,
                 last, clean, rd, fx, unlinks>>

\* ingestFile(p, sourceType) called by the owner: returns 0 when closed.
CallIngestFile(p) ==
  /\ OwnerCall
  /\ IF closed
     THEN /\ ret' = Ret("ingestFile", "returns")
          /\ UNCHANGED <<tasks, ingestTimer, timers, burst, runs, processing,
                         watcher, live>>
     ELSE /\ HasFree(ApiSlots)
          /\ ret' = Ret("ingestFile", "pending")
          /\ LoopStep(FreeSlot(ApiSlots), "file",
                      <<[path |-> p, sourceType |-> getSourceTypeForFile(p)]>>,
                      tracked, clean, ingestTimer, timers, pendingFiles)
  /\ UNCHANGED <<envVars, storeVars, batchSize, pendingFiles, closed, last, clean, rd, fx, unlinks>>

\* status(): throws when closed, else counts the rows of the store.
CallStatus ==
  /\ OwnerCall
  /\ ret' = Ret("status", IF closed THEN "throws" ELSE "returns")
  /\ UNCHANGED <<envVars, storeVars, batchSize, watcher, live, pendingFiles,
                 ingestTimer, timers, processing, closed, tasks, obsVars, rd, fx, unlinks>>

\* stopWatching() up to its await: the timer is cleared; an attached watcher
\* is closed, which is awaited.
StopBegin(t, kind) ==
  /\ ingestTimer' = FALSE
  /\ timers' = IF ingestTimer THEN Max(0, timers - 1) ELSE timers
  /\ tasks' = IF watcher # 0
              THEN [tasks EXCEPT ![t] =
                      [IdleTask EXCEPT !.kind = kind, !.pc = "closing", !.wid = watcher]]
              ELSE tasks

\* stopWatching() called by the owner.
CallStopWatching ==
  /\ OwnerCall
  /\ watcher # 0 => HasFree(ApiSlots)
  /\ StopBegin(FreeSlot(ApiSlots), "stop")
  /\ ret' = Ret("stopWatching", IF watcher # 0 THEN "pending" ELSE "returns")
  /\ UNCHANGED <<envVars, storeVars, batchSize, watcher, live, pendingFiles,
                 processing, closed, obsVars, rd, fx, unlinks>>

\* close(): returns when already closed; else the flag is set, stopWatching
\* runs, and the store handle is released once stopWatching has returned.
CallClose ==
  /\ OwnerCall
  /\ IF closed
     THEN /\ ret' = Ret("close", "returns")
          /\ UNCHANGED <<closed, ingestTimer, timers, tasks, dbOpen>>
     ELSE /\ watcher # 0 => HasFree(ApiSlots)
          /\ closed' = TRUE
          /\ StopBegin(FreeSlot(ApiSlots), "close")
          /\ dbOpen' = (watcher # 0)
          /\ ret' = Ret("close", IF watcher # 0 THEN "pending" ELSE "returns")
  /\ UNCHANGED <<envVars, tracked, events, failBudget, batchSize, watcher, live,
                 pendingFiles, processing, obsVars, rd, fx, unlinks>>

\* watcher.close() returns to stopWatching: this.watcher = null; close()
\* then releases the store handle.
CloseResume(t) ==
  /\ tasks[t].pc = "closing"
  /\ watcher' = 0
  /\ live' = live \ {tasks[t].wid}
  /\ notifs' = IF live' = {} THEN [p \in Paths |-> 0] ELSE notifs
  /\ unlinks' = IF live' = {} THEN [p \in Paths |-> [unlinks[p] EXCEPT !.pending = 0]]
                ELSE unlinks
  /\ dbOpen' = IF tasks[t].kind = "close" THEN FALSE ELSE dbOpen
  /\ tasks' = [tasks EXCEPT ![t] = IdleTask]
  /\ UNCHANGED <<files, wrest, tracked, events, failBudget, batchSize, pendingFiles,
                 ingestTimer, timers, processing, closed, calls, ret, obsVars, rd, fx>>

\* onFileChange treats every notification as a change.
IsDroppedNever(eventType) == FALSE

\* onFileChange returns at once on an unlink notification.
IsDropped(eventType) == eventType = "unlink"

\* The watcher delivers an unlink notification of p: emitEvent resolves the
\* source type and calls onFileChange, which has nothing to ingest.
OnUnlink(p) ==
  /\ unlinks[p].pending > 0
  /\ live # {}
  /\ unlinks' = [unlinks EXCEPT ![p] = [pending |-> @.pending - 1, delivered |-> TRUE]]
  /\ IF resolveSourceType(p) = NoType \/ IsDropped("unlink")
     THEN UNCHANGED <<pendingFiles, ingestTimer, timers, burst, runs>>
     ELSE /\ pendingFiles' = SetAdd(pendingFiles, p)
          /\ ingestTimer' = scheduleIngest(ingestTimer, timers).armed
          /\ timers' = scheduleIngest(ingestTimer, timers).out
          /\ burst' = [burst EXCEPT ![p] = Min(@ + 1, MaxNotifs)]
          /\ runs' = [runs EXCEPT ![p] = 0]
  /\ UNCHANGED <<files, wrest, notifs, storeVars, batchSize, watcher, live, processing,
                 closed, tasks, calls, ret, last, clean, rd, fx>>

\* ------------------------------------------------------------ specifications
Next ==
  \/ \E p \in Paths : WriteRecord(p)
  \/ \E p \in Paths : WritePartial(p)
  \/ \E p \in Paths : WriteRest(p)
  \/ \E p \in Paths : OnFileChange(p)
  \/ \E p \in Paths : Unlink(p)
  \/ \E p \in Paths : OnUnlink(p)
  \/ TimerFire
  \/ \E t \in Slots : IngestStep(t)
  \/ CallStartWatching
  \/ CallIngestExisting
  \/ \E t \in Slots : Resolve(t)
  \/ \E p \in Paths : CallIngestFile(p)
  \/ CallStopWatching
  \/ CallClose
  \/ CallStatus
  \/ \E t \in Slots : CloseResume(t)

Spec == Init /\ [][Next]_vars

\* One watched file, written in whole records or in two parts while the
\* watcher is attached; the store never fails.
NextTail ==
  \/ (watcher = 0 /\ CallStartWatching)
  \/ \E t \in Slots : Resolve(t)
  \/ (watcher # 0 /\ WriteRecord(PathA))
  \/ (watcher # 0 /\ WritePartial(PathA))
  \/ (watcher # 0 /\ WriteRest(PathA))
  \/ \E p \in Paths : OnFileChange(p)
  \/ TimerFire
  \/ \E t \in Slots : IngestStep(t)

SpecTail == InitSound /\ [][NextTail]_vars

\* Direct ingestFile calls, possibly two in flight, on one file that is being
\* written in whole records, with small batch sizes and a store that may fail.
NextStore ==
  \/ WriteRecord(PathA)
  \/ CallIngestFile(PathA)
  \/ \E t \in Slots : IngestStep(t)

SpecStore == InitBatch /\ [][NextStore]_vars

\* startWatching() called when no call is in flight and no watcher is attached.
StartAlone ==
  /\ \A t \in Slots : tasks[t].kind = "none"
  /\ watcher = 0
  /\ CallStartWatching

\* Watching two files written in whole records; notifications are delivered
\* only while no pass is in flight.
NextDebounce ==
  \/ StartAlone
  \/ \E t \in Slots : Resolve(t)
  \/ \E p \in Paths : (watcher # 0 /\ WriteRecord(p))
  \/ \E p \in Paths : (~processing /\ OnFileChange(p))
  \/ TimerFire
  \/ \E t \in Slots : IngestStep(t)

SpecDebounce == InitSound /\ [][NextDebounce]_vars

\* Watching two files written in whole records, notifications delivered at
\* any time, also while a pass is in flight.
NextWatch ==
  \/ StartAlone
  \/ \E t \in Slots : Resolve(t)
  \/ \E p \in Paths : (watcher # 0 /\ WriteRecord(p))
  \/ \E p \in Paths : OnFileChange(p)
  \/ TimerFire
  \/ \E t \in Slots : IngestStep(t)

\* A pending readNewLines returns: IngestStep(t) is enabled exactly while
\* task t is at its read, and no other step takes t away from it.
ReadsReturn == \A t \in Slots : []<>(tasks[t].pc # "read")

\* The watcher is never stopped; an armed setTimeout fires and an awaited
\* read returns.
SpecWatch == InitSound /\ [][NextWatch]_vars /\ WF_vars(TimerFire) /\ ReadsReturn

\* ingestExisting() called when no call is in flight.
ExistingAlone == (\A t \in Slots : tasks[t].kind = "none") /\ CallIngestExisting

\* The loops over several files (ingestExisting, startWatching's initial
\* ingestion and debounced passes) with a store that may fail; the owner
\* makes at most MaxCalls calls and writes.
NextLoops ==
  \/ StartAlone
  \/ ExistingAlone
  \/ \E t \in Slots : Resolve(t)
  \/ \E p \in Paths : WriteRecord(p)
  \/ \E p \in Paths : OnFileChange(p)
  \/ TimerFire
  \/ \E t \in Slots : IngestStep(t)

SpecLoops == Init /\ [][NextLoops]_vars

\* The file at p was removed while a watcher was attached.
Removed(p) == unlinks[p].pending > 0 \/ unlinks[p].delivered

\* Watching two files that are written in whole records and then removed for
\* good.
NextUnlink ==
  \/ StartAlone
  \/ \E t \in Slots : Resolve(t)
  \/ \E p \in Paths : (watcher # 0 /\ ~Removed(p) /\ WriteRecord(p))
  \/ \E p \in Paths : (watcher # 0 /\ Unlink(p))
  \/ \E p \in Paths : OnFileChange(p)
  \/ \E p \in Paths : OnUnlink(p)
  \/ TimerFire
  \/ \E t \in Slots : IngestStep(t)

SpecUnlink == InitSound /\ [][NextUnlink]_vars

\* As SpecWatch, with a store that may fail MaxFailures times and accepts
\* every insert after that.
InitFailing == InitWith(MaxFailures, {DEFAULT_BATCH_SIZE}, Unlimited)
SpecRetry == InitFailing /\ [][NextWatch]_vars /\ WF_vars(TimerFire) /\ ReadsReturn

\* ------------------------------------------------- tail-reader scenarios
\* Two reads of one file chained by the returned cursor, the file's last
\* line being completed in between.
ReadChars == {"a", "b", NL}
TextChars == ReadChars \ {NL}

NoRes == [cursor |-> 0, size |-> 0, lines |-> <<>>, truncated |-> FALSE, reset |-> FALSE]

ingestorVars == <<files, wrest, notifs, tracked, events, dbOpen, failBudget, batchSize,
                  watcher, live, pendingFiles, ingestTimer, timers, processing, closed,
                  tasks, calls, ret, last, clean, burst, runs, unlinks>>

InitRead ==
  /\ files = [p \in Paths |-> NoFile]
  /\ wrest = [p \in Paths |-> <<>>]
  /\ notifs = [p \in Paths |-> 0]
  /\ tracked = [p \in Paths |-> NoRow]
  /\ events = [p \in Paths |-> <<>>]
  /\ dbOpen = TRUE
  /\ failBudget = 0
  /\ batchSize = DEFAULT_BATCH_SIZE
  /\ watcher = 0
  /\ live = {}
  /\ pendingFiles = <<>>
  /\ ingestTimer = FALSE
  /\ timers = 0
  /\ processing = FALSE
  /\ closed = FALSE
  /\ tasks = [t \in Slots |-> IdleTask]
  /\ calls = 0
  /\ ret = NoRet
  /\ last = NoLast
  /\ clean = [p \in Paths |-> FALSE]
  /\ burst = [p \in Paths |-> 0]
  /\ runs = [p \in Paths |-> 0]
  /\ fx = NoFx
  /\ unlinks = NoUnlinks
  /\ \E file \in {NoFile} \cup {FileOf(d) : d \in SeqsUpTo(ReadChars, MaxReadLen)} :
     \E cursorArg \in {NoArg} \cup {Arg(c) : c \in (-1)..(MaxReadLen + 1)} :
     \E maxArg \in {NoArg} \cup {Arg(m) : m \in 0..MaxCap} :
       rd = [pc |-> "start", orig |-> file, file |-> file, cursorArg |-> cursorArg,
             maxArg |-> maxArg, rest |-> <<>>, r1 |-> NoRes, r2 |-> NoRes]

\* readLogSlice({file, cursor, maxBytes})
ReadFirst ==
  /\ rd.pc = "start"
  /\ rd' = [rd EXCEPT !.pc = "read1",
                      !.r1 = readLogSlice(rd.file, rd.cursorArg, rd.maxArg)]
  /\ UNCHANGED <<ingestorVars, fx>>

\* The producer completes the line in progress: its remaining bytes and
\* the line break.
Complete ==
  /\ rd.pc = "read1"
  /\ rd.file.exists
  /\ rd.file.data # <<>>
  /\ rd.file.data[Len(rd.file.data)] # NL
  /\ \E rest \in SeqsUpTo(TextChars, 1) :
       rd' = [rd EXCEPT !.pc = "completed", !.rest = rest,
                        !.file = FileOf(rd.file.data \o rest \o <<NL>>)]
  /\ UNCHANGED <<ingestorVars, fx>>

\* readLogSlice({file, cursor: <the cursor the first read returned>, maxBytes})
ReadSecond ==
  /\ rd.pc \in {"read1", "completed"}
  /\ rd' = [rd EXCEPT !.pc = IF rd.pc = "completed" THEN "done" ELSE "reread",
                      !.r2 = readLogSlice(rd.file, Arg(rd.r1.cursor), rd.maxArg)]
  /\ UNCHANGED <<ingestorVars, fx>>

NextRead == ReadFirst \/ Complete \/ ReadSecond

SpecRead == InitRead /\ [][NextRead]_vars

\* The text after the last line break of d (all of d when it has none).
RECURSIVE Fragment(_)
Fragment(d) ==
  IF d = <<>> \/ d[Len(d)] = NL THEN <<>>
  ELSE Append(Fragment(SubSeq(d, 1, Len(d) - 1)), d[Len(d)])

Range(seq) == {seq[i] : i \in 1..Len(seq)}

\* C2: readLogSlice returns only lines terminated by a line break: when the
\* file's last byte is not a line break, the unterminated text after the
\* last line break is not among the returned lines.
C2_OnlyTerminatedLines ==
  (rd.pc = "read1" /\ rd.file.exists /\ rd.file.data # <<>>
     /\ rd.file.data[Len(rd.file.data)] # NL)
  => Fragment(rd.file.data) \notin Range(rd.r1.lines)

\* The scenario of C3: one complete record, then an unterminated fragment.
IsRecordThenFragment(d) ==
  \E i \in 2..(Len(d) - 1) :
    /\ d[i] = NL
    /\ \A j \in 1..Len(d) : j # i => d[j] # NL

RecordOf(d) == SplitLines(d)[1]

\* C3: for a file holding one complete record followed by an unterminated
\* fragment, the first read returns exactly the complete record, and after
\* the fragment is completed the read from the returned cursor returns the
\* completed record exactly once and whole.
C3_CompletedRecordReadOnce ==
  (rd.pc = "done" /\ rd.orig.exists /\ IsRecordThenFragment(rd.orig.data)
     /\ rd.cursorArg \in {NoArg, Arg(0)} /\ rd.maxArg = NoArg)
  => /\ rd.r1.lines = <<RecordOf(rd.orig.data)>>
     /\ rd.r2.lines = <<Fragment(rd.orig.data) \o rd.rest>>

\* ------------------------------------------------------------ the pipeline
\* Nothing is in flight, queued or scheduled while the watcher is attached.
Quiescent ==
  /\ watcher # 0
  /\ \A t \in Slots : tasks[t].kind = "none"
  /\ \A p \in Paths : notifs[p] = 0
  /\ pendingFiles = <<>>
  /\ ~ingestTimer
  /\ ~processing

\* The lines of d that are terminated by a line break.
CompleteLines(d) ==
  LET split == SplitLines(d) IN SubSeq(split, 1, Len(split) - 1)

Count(seq, x) == Cardinality({i \in 1..Len(seq) : seq[i] = x})

RawJsons(rows) == [i \in 1..Len(rows) |-> rows[i].rawJson]

Parses(p, line) == parseLine(getSourceTypeForFile(p), line, p) # Null

\* Every complete line of p that its parser accepts is stored, as often as
\* the file holds it.
AllStored(p) ==
  LET lines == CompleteLines(files[p].data) IN
  \A i \in 1..Len(lines) :
    Parses(p, lines[i]) =>
      Count(RawJsons(events[p]), Trim(lines[i])) >= Count(lines, lines[i])

\* C1: at-least-once delivery.  For appends to one watched file, a record
\* possibly written in two parts, each append followed by a notification,
\* the store never failing: once every notification has been served and
\* nothing is left in flight, every complete parseable line of the file is
\* stored as an event.
C1_AtLeastOnce == Quiescent => AllStored(PathA)

\* C4: idempotent resumption.  An ingestFile of a path that begins after an
\* ingestFile of that path has completed, with no write to the file since
\* that one began, inserts zero events and leaves the tracked row as it was.
C4_IdempotentResumption ==
  (last.idem /\ ~last.stale) =>
    /\ last.inserted = 0
    /\ last.after = last.before

\* A second ingestFile of an unchanged file whose first one stored events
\* and left the cursor at the end of the file.
C4_Witness ==
  /\ last.idem /\ ~last.stale
  /\ last.before.present /\ last.before.byteOffset = last.len
  /\ last.len > 0
  /\ events[last.path] # <<>>

\* C5: the tracked-file upsert follows the commit of every batch insert of
\* the pass: the stored row changes only when every parsed event has been
\* inserted, and a failed insert leaves the stored row as it was.
C5_CursorFollowsCommit ==
  /\ last.status = "failed" => last.after = last.before
  /\ last.after # last.before => last.inserted = last.parsed

\* An insert failed in a pass whose read had moved the cursor.
C5_Witness ==
  /\ last.status = "failed"
  /\ last.parsed > 0
  /\ last.newCursor # last.cursor

\* C6: a store error during a pass rolls the whole pass back: no event of
\* the pass stays in the store.
C6_FailedPassLeavesNoEvent == last.status = "failed" => last.inserted = 0

\* C7: a pass whose read returns zero lines creates or updates the tracked
\* row with the observed cursor and file size, and inserts nothing.
C7_ZeroLinePassRefreshesRow ==
  last.status = "zero" =>
    /\ last.inserted = 0
    /\ last.after.present
    /\ last.after.byteOffset = last.newCursor
    /\ last.after.fileSize = last.fileSize

\* C8: debounce coalescing.  The notifications of a path received while the
\* timer is armed and no pass is in flight cause one ingestFile execution for
\* the path: never a second one before a further notification, one once the
\* timer has fired and the pass has ended; and that execution reads the file
\* to its end, so that every line written before it ran is stored.
C8_DebounceCoalescing ==
  /\ \A p \in Paths : runs[p] <= 1
  /\ Quiescent => \A p \in Paths : burst[p] = 0
  /\ (last.kind = "pass" /\ last.status # "none") => last.newCursor = last.len
  /\ \A p \in Paths : clean[p] => AllStored(p)

\* The one execution that followed two notifications has stored the record
\* they reported.
C8_Witness ==
  /\ last.kind = "pass" /\ last.n >= 2 /\ last.inserted > 0
  /\ runs[last.path] = 1
  /\ clean[last.path]

\* C9: at most one execution of the processPendingFiles body is in flight.
C9_PassesNeverOverlap ==
  Cardinality({t \in PassSlots : tasks[t].kind = "pass"}) <= 1

\* A timer fired while a pass was in flight: the pass is still running, a
\* path is queued and no timer is armed.
C9_Witness ==
  /\ \E t \in PassSlots : tasks[t].kind = "pass"
  /\ pendingFiles # <<>>
  /\ ~ingestTimer

\* C10: no notification is dropped.  Every add or change notification of a
\* watched path, given while the instance is watching and neither stopped nor
\* closed afterwards, is eventually followed by the start of an ingestFile
\* execution of a debounced pass for that path.
C10_NoNotificationDropped ==
  \A p \in Paths : (burst[p] > 0) ~> (burst[p] = 0)

\* A path was queued while a pass was in flight and the timer has already
\* fired against the in-flight flag: only the finishing pass can re-arm it.
C10_Witness ==
  /\ processing
  /\ ~ingestTimer
  /\ \E i \in 1..Len(pendingFiles) : burst[pendingFiles[i]] > 0


\* The arguments and the file of the first read of the scenario.
RdSize == Len(rd.file.data)
RdCap == IF rd.maxArg # NoArg THEN rd.maxArg[1] ELSE DEFAULT_MAX_BYTES
RdCursor == rd.cursorArg[1]

\* The lines of a read of `data` that starts at byte offset `start`.
ReadFrom(data, start) == SliceLines(data, start, Len(data))

\* C15: rotation safety.  A read with a cursor greater than the size of the
\* file reads from byte 0 and returns reset = true.
C15_RotationReadsFromZero ==
  (rd.pc = "read1" /\ rd.file.exists /\ rd.cursorArg # NoArg /\ RdCursor > RdSize)
  => /\ rd.r1.reset
     /\ rd.r1.lines = ReadFrom(rd.file.data, 0)

\* A read with a cursor beyond the end of a file that holds a line, with a
\* cap smaller than the file.
C15_Witness ==
  /\ rd.pc = "read1" /\ rd.file.exists /\ rd.cursorArg # NoArg
  /\ RdCursor > RdSize /\ RdSize > RdCap
  /\ rd.r1.lines # <<>>

\* C16: every read returns a cursor equal to the returned size, which is the
\* size of the file at the read (both 0 for a missing file).
C16_CursorIsObservedSize ==
  /\ rd.pc # "start" =>
       /\ rd.r1.cursor = rd.r1.size
       /\ rd.r1.size = (IF rd.orig.exists THEN Len(rd.orig.data) ELSE 0)
  /\ rd.pc \in {"reread", "done"} =>
       /\ rd.r2.cursor = rd.r2.size
       /\ rd.r2.size = (IF rd.file.exists THEN Len(rd.file.data) ELSE 0)

\* A read that returned no line although the supplied cursor was not the
\* size of the file, and a read of a missing file.
C16_Witness ==
  \/ /\ rd.pc = "read1" /\ rd.file.exists /\ rd.cursorArg # NoArg
     /\ RdSize > 0 /\ RdCursor >= 0 /\ RdCursor < RdSize
     /\ rd.r1.lines = <<>>
  \/ rd.pc = "read1" /\ ~rd.file.exists /\ rd.cursorArg # NoArg /\ RdCursor > 0

C18_BootstrapCap ==
  (rd.pc = "read1" /\ rd.file.exists /\ rd.cursorArg = NoArg)
  => /\ rd.r1.lines = ReadFrom(rd.file.data, Max(0, RdSize - RdCap))
     /\ rd.r1.truncated = (Max(0, RdSize - RdCap) > 0)

\* A bootstrap read of a file larger than the cap that skipped a line.
C18_Witness ==
  /\ rd.pc = "read1" /\ rd.file.exists /\ rd.cursorArg = NoArg
  /\ RdSize > RdCap
  /\ rd.r1.truncated
  /\ rd.r1.lines # ReadFrom(rd.file.data, 0)

\* ------------------------------------------------------- the debounce timer
\* A step that delivers a notification.
NotifStep == \E p \in Paths : notifs'[p] = notifs[p] - 1

\* A step in which a timeout callback runs.
FireStep == timers' = timers - 1 /\ ~ingestTimer'

\* The pass task that a firing starts takes `taken`, in order.
PassTook(taken) ==
  \E t \in PassSlots :
    /\ tasks[t].kind = "none"
    /\ tasks'[t].kind = "pass"
    /\ <<tasks'[t].path>> \o PathsOf(tasks'[t].files) = taken

\* A pass goes through its list one path at a time, in order.
PassSequential ==
  \A t \in PassSlots :
    (/\ tasks[t].kind = "pass"
     /\ <<tasks'[t].kind, tasks'[t].path, tasks'[t].files>>
          # <<tasks[t].kind, tasks[t].path, tasks[t].files>>) =>
       \/ tasks'[t].kind = "none" /\ tasks[t].files = <<>>
       \/ /\ tasks'[t].kind = "pass"
          /\ tasks[t].files # <<>>
          /\ tasks'[t].path = Head(tasks[t].files).path
          /\ tasks'[t].files = Tail(tasks[t].files)

\* C11: at most one debounce timeout is outstanding, and it is the one held
\* in this.ingestTimer; a notification delivered while the timer is armed
\* creates no timeout and leaves the armed one alone; a firing with no pass
\* in flight empties the pending set and starts a pass over exactly the paths
\* that were pending, which are ingested one after the other in that order.
C11_OneTimerDrainsAll ==
  /\ [](timers <= 1 /\ (ingestTimer <=> timers = 1))
  /\ [][(NotifStep /\ ingestTimer) => UNCHANGED <<ingestTimer, timers>>]_vars
  /\ [][(FireStep /\ ~processing /\ ~closed) =>
          (pendingFiles' = <<>> /\ PassTook(pendingFiles))]_vars
  /\ [][PassSequential]_vars

\* A pass is in flight that took more than one path, the first of them
\* notified twice before the timer fired; nothing is pending and no timer is
\* armed.
C11_Witness ==
  \E t \in PassSlots :
    /\ tasks[t].kind = "pass"
    /\ tasks[t].files # <<>>
    /\ tasks[t].n = 2
    /\ pendingFiles = <<>>
    /\ timers = 0

\* --------------------------------------------------------------- close()
\* C12: the store handle is not released while an ingestFile execution is
\* between its cursor lookup and its tracked-file upsert (awaiting
\* readNewLines), so that its insert and upsert find the handle open.
C12_HandleOpenWhileIngesting ==
  \A t \in Slots : tasks[t].pc = "read" => dbOpen

\* close() was called and its promise has resolved.
CloseResolved == closed /\ \A t \in Slots : tasks[t].kind # "close"

\* C13: once close() has resolved, no debounce timer is armed and no watcher
\* is attached to the instance.
C13_ClosedIsDetached ==
  CloseResolved => (~ingestTimer /\ timers = 0 /\ watcher = 0)

\* C14: closed is terminal and fails fast: a startWatching, ingestExisting,
\* ingestFile or status call made on a closed instance throws, it does not
\* return a normal result.
C14_ClosedFailsFast ==
  (ret.closed /\ ret.op \in {"startWatching", "ingestExisting", "ingestFile", "status"})
    => ret.out = "throws"

\* ------------------------------------------------------ store transactions
\* C19: insertEventsBatch is all-or-nothing.  Every batch that returned
\* normally is stored in full; when a row of a batch fails, none of that
\* batch is stored (the rows that ran before the failing one are rolled
\* back) and the error is raised to the caller, whose ingestFile fails.
C19_BatchAllOrNothing ==
  /\ (last.kind # "none" /\ last.fail = NoFail /\ dbOpen) =>
        /\ last.status \in {"ok", "zero"}
        /\ last.inserted = last.parsed
  /\ last.fail # NoFail =>
        /\ last.status = "failed"
        /\ last.raised
        /\ last.inserted = (last.fail.batch - 1) * batchSize

\* The second row of a batch failed and its first row is not in the store.
C19_Witness ==
  /\ last.fail.row = 2
  /\ last.status = "failed"
  /\ last.inserted = 0
  /\ last.parsed = 2

\* ------------------------------------------------------ failure isolation
\* C20: when the ingestFile of one file fails inside ingestExisting (also as
\* called by startWatching) or inside a debounced pass, the error does not
\* leave the call or pass, and the loop goes on with the next file of its
\* list, or ends normally when the failed file was the last.
C20_FailureIsolation ==
  (last.status = "failed" /\ last.kind \in {"pass", "existing", "start"}) =>
     /\ ~last.raised
     /\ last.next = (IF last.todo = <<>> THEN <<>> ELSE Head(last.todo))

\* The first file of a debounced pass failed and the pass is ingesting the
\* second.
C20_Witness ==
  /\ last.status = "failed"
  /\ last.kind = "pass"
  /\ last.todo # <<>>
  /\ \E t \in PassSlots :
       tasks[t].kind = "pass" /\ tasks[t].pc = "read" /\ tasks[t].path = Head(last.todo)

\* ------------------------------------------------------ retry after failure
\* C21: a file whose ingestFile failed with a store error in a debounced
\* pass is ingested again by a later debounced pass.
C21_FailedFileRetried ==
  \A p \in Paths :
    (last.kind = "pass" /\ last.status = "failed" /\ last.path = p)
      ~> (\E t \in PassSlots : tasks[t].kind = "pass" /\ tasks[t].path = p)

\* --------------------------------------------------------- parser scenarios
\* One line given to one parser, alone (parseLine) and as the second line of
\* a file's pass (parseLines after a record the parser accepts).
SourceTypes == {"system-log", "cache-trace", "session"}

\* The members that occur in the records of each source, in the order in
\* which the model writes them.
MemberOrder(sourceType) ==
  CASE sourceType = "system-log" -> <<"k", "y", "m", "n", "o", "P", "D", "g", "s", "z", "L", "R", "W", "B">>
    [] sourceType = "cache-trace" -> <<"k", "t", "u", "q", "G", "N", "O", "A", "E", "C">>
    [] OTHER -> <<"k", "y", "S", "M", "V", "I", "T", "a", "b", "c", "g">>

\* The text of the object with the members ms.
ObjectText(sourceType, ms) ==
  LET In(x) == x \in ms
  IN  <<"{">> \o SelectSeq(MemberOrder(sourceType), In) \o <<"}">>

\* The texts a line can hold between its white space: nothing, text that is
\* not JSON, a broken object, and the objects of up to MaxMembers members.
Bodies(sourceType) ==
  {<<>>, <<"x">>, <<"{", "x">>} \cup
  {ObjectText(sourceType, ms) :
     ms \in {m \in SUBSET Range(MemberOrder(sourceType)) : Cardinality(m) <= MaxMembers}}

Pad(n) == [i \in 1..n |-> " "]

\* A record every line of which the parser of the source turns into an event.
GoodRecord(sourceType) ==
  CASE sourceType = "system-log" -> <<"{", "k", "}">>
    [] sourceType = "cache-trace" -> <<"{", "t", "q", "G", "}">>
    [] OTHER -> <<"{", "y", "}">>

InitParse ==
  /\ files = [p \in Paths |-> NoFile]
  /\ wrest = [p \in Paths |-> <<>>]
  /\ notifs = [p \in Paths |-> 0]
  /\ tracked = [p \in Paths |-> NoRow]
  /\ events = [p \in Paths |-> <<>>]
  /\ dbOpen = TRUE
  /\ failBudget = 0
  /\ batchSize = DEFAULT_BATCH_SIZE
  /\ watcher = 0
  /\ live = {}
  /\ pendingFiles = <<>>
  /\ ingestTimer = FALSE
  /\ timers = 0
  /\ processing = FALSE
  /\ closed = FALSE
  /\ tasks = [t \in Slots |-> IdleTask]
  /\ calls = 0
  /\ ret = NoRet
  /\ last = NoLast
  /\ clean = [p \in Paths |-> FALSE]
  /\ burst = [p \in Paths |-> 0]
  /\ runs = [p \in Paths |-> 0]
  /\ rd = NoRd
  /\ unlinks = NoUnlinks
  /\ \E sourceType \in SourceTypes :
     \E body \in Bodies(sourceType) :
     \E lead \in 0..MaxPad :
     \E trail \in 0..MaxPad :
       fx = [pc |-> "line", parser |-> sourceType, body |-> body,
             line |-> Pad(lead) \o body \o Pad(trail),
             res |-> Null, pass |-> Null]

\* parser.parseLine(line, sourceFile)
ParseOne ==
  /\ fx.pc = "line"
  /\ fx' = [fx EXCEPT !.pc = "parsed",
                      !.res = parseLine(fx.parser, fx.line, PathA)]
  /\ UNCHANGED <<ingestorVars, rd>>

\* parseLines(parser, [record, line], sourceFile) as ingestFile calls it.
ParseFile ==
  /\ fx.pc = "parsed"
  /\ fx' = [fx EXCEPT !.pc = "file",
                      !.pass = parseLines(fx.parser, <<GoodRecord(fx.parser), fx.line>>,
                                          PathA)]
  /\ UNCHANGED <<ingestorVars, rd>>

NextParse == ParseOne \/ ParseFile

SpecParse == InitParse /\ [][NextParse]_vars

\* The object JSON.parse returned for the line of the scenario.
FxIsObject == JsonParses(fx.body)
FxEntry == JsonParse(fx.body)
FxEvent == fx.res[1]

\* The parser has been called on the line of the scenario.
FxParsed == fx.pc \in {"parsed", "file"}

\* The line holds no object: it is empty, not JSON, or a broken object.
FxNoObject == fx.body \in {<<>>, <<"x">>, <<"{", "x">>}

\* C22: every parser returns an event or null for every line and never
\* throws; an empty line, a line that is not JSON and a broken object give
\* null; a file's parseLines does not fail because of one line.
C22_ParsersNeverRaise ==
  /\ FxParsed => ~IsThrown(fx.res)
  /\ (FxParsed /\ FxNoObject) => fx.res = Null
  /\ fx.pc = "file" => ~IsThrown(fx.pass)

\* C23 as stated: the rawJson of every event a parser returns is the input
\* line, character for character.
C23_RawJsonIsLine ==
  (FxParsed /\ IsEvent(fx.res)) => FxEvent.rawJson = fx.line

\* C23, amended: white space before and after the text of the line does not
\* change what the parser returns, and the rawJson of every event a parser
\* returns is the line without that white space, character for character.
C23_RawJsonIsTrimmedLine ==
  FxParsed =>
    /\ fx.res = parseLine(fx.parser, fx.body, PathA)
    /\ IsEvent(fx.res) => FxEvent.rawJson = fx.body

\* An event was returned for a line with white space on both sides.
C23_Witness ==
  /\ FxParsed
  /\ IsEvent(fx.res)
  /\ Head(fx.line) = " "
  /\ fx.line[Len(fx.line)] = " "
  /\ FxEvent.rawJson = fx.body

\* C24: every event a parser returns carries a ts: a time text, never a
\* missing value and never a text that is no time (for which the time of
\* ingestion is to be used).
C24_EventHasTime ==
  (FxParsed /\ IsEvent(fx.res)) =>
    /\ FxEvent.ts.t = "string"
    /\ FxEvent.ts.s # NoTime

\* The text of the first text block of a content array, in full.
RECURSIVE FirstText(_)
FirstText(blocks) ==
  IF blocks = <<>> THEN Undef
  ELSE IF /\ Head(blocks).t = "object"
          /\ Get(Head(blocks), "type") = Str(<<"text">>)
          /\ Get(Head(blocks), "text").t = "string"
       THEN Get(Head(blocks), "text")
       ELSE FirstText(Tail(blocks))

\* The message a parser extracts from a record, in full: the message of a
\* tslog record; the note, error or message count of a cache-trace record;
\* the text content of a session message.
MessageText(sourceType, entry) ==
  CASE sourceType = "system-log" -> extractMessage(entry)
    [] sourceType = "cache-trace" ->
         IF Truthy(Get(entry, "note")) THEN Get(entry, "note")
         ELSE IF Truthy(Get(entry, "error"))
         THEN Str(<<"error: ">> \o Template(Get(entry, "error")))
         ELSE IF Get(entry, "messageCount").t # "undefined"
         THEN Str(<<"messages: ">> \o Template(Get(entry, "messageCount")))
         ELSE Undef
    [] OTHER ->
         LET content == Get(Get(entry, "message"), "content") IN
         IF isSessionHeader(entry) \/ ~isSessionMessage(entry) THEN Undef
         ELSE IF content.t = "string" THEN content
         ELSE IF content.t = "array" THEN FirstText(content.s)
         ELSE Undef

StateDir == <<"/", "r">>

\* The names of the scenarios' paths: a directory or file name, of one or
\* two parts ("x" "j" is a name with the extension .jsonl).
Names == { <<"r">>, <<"g">>, <<"s">>, <<"x">>, <<"x", "j">> }

\* The absolute paths of at most n names.
RECURSIVE PathsUpTo(_)
PathsUpTo(n) ==
  IF n = 0 THEN {<<>>}
  ELSE LET shorter == PathsUpTo(n - 1) IN
       shorter \cup {p \o <<"/">> \o name : p \in shorter, name \in Names}

ChangedPaths == PathsUpTo(MaxSegments) \ {<<>>}

\* The patterns of the scenarios: an exact file, a directory, a wildcard in
\* a file name, a wildcard for a directory, the default session pattern and
\* other recursive patterns.
Patterns ==
  { StateDir \o <<"/", "g", "/", "x", "/", "s", "/", "x", "j">>,
    StateDir \o <<"/", "g">>,
    StateDir \o <<"/", "*", "j">>,
    StateDir \o <<"/", "*", "/", "x", "j">>,
    getDefaultWatchedPaths(StateDir)[1].pattern,
    StateDir \o <<"/", "g", "/", "*", "*">>,
    StateDir \o <<"/", "*", "*", "/", "x", "j">>,
    <<"*", "*", "/", "s", "/", "x">> }

\* A call matchesPattern(path, pattern) before it is made.
\* An ingestor just constructed that is left alone.
InitQuiet ==
  /\ files = [p \in Paths |-> NoFile]
  /\ wrest = [p \in Paths |-> <<>>]
  /\ notifs = [p \in Paths |-> 0]
  /\ tracked = [p \in Paths |-> NoRow]
  /\ events = [p \in Paths |-> <<>>]
  /\ dbOpen = TRUE
  /\ failBudget = 0
  /\ batchSize = DEFAULT_BATCH_SIZE
  /\ watcher = 0
  /\ live = {}
  /\ pendingFiles = <<>>
  /\ ingestTimer = FALSE
  /\ timers = 0
  /\ processing = FALSE
  /\ closed = FALSE
  /\ tasks = [t \in Slots |-> IdleTask]
  /\ calls = 0
  /\ ret = NoRet
  /\ last = NoLast
  /\ clean = [p \in Paths |-> FALSE]
  /\ burst = [p \in Paths |-> 0]
  /\ runs = [p \in Paths |-> 0]
  /\ rd = NoRd
  /\ unlinks = NoUnlinks

InitMatch ==
  /\ InitQuiet
  /\ \E path \in ChangedPaths, pattern \in Patterns :
       fx = [pc |-> "path", path |-> path, pattern |-> pattern, res |-> FALSE]

MatchPath ==
  /\ fx.pc = "path"
  /\ fx' = [fx EXCEPT !.pc = "matched",
                      !.res = matchesPattern(fx.path, fx.pattern)]
  /\ UNCHANGED <<ingestorVars, rd>>

NextMatch == MatchPath
SpecMatch == InitMatch /\ [][NextMatch]_vars

\* text cut at every "/": the names of a path, the segments of a pattern.
RECURSIVE SplitSep(_, _)
SplitSep(text, cur) ==
  IF text = <<>> THEN <<cur>>
  ELSE IF Head(text) = "/" THEN <<cur>> \o SplitSep(Tail(text), <<>>)
  ELSE SplitSep(Tail(text), Append(cur, Head(text)))

\* Glob semantics inside one segment: "*" is any run of characters.
RECURSIVE WildMatch(_, _)
WildMatch(pat, name) ==
  IF pat = <<>> THEN name = <<>>
  ELSE IF Head(pat) = "*"
       THEN \/ WildMatch(Tail(pat), name)
            \/ name # <<>> /\ WildMatch(pat, Tail(name))
       ELSE name # <<>> /\ Head(name) = Head(pat) /\ WildMatch(Tail(pat), Tail(name))

\* Glob semantics on segments: "**" is any number of segments.
RECURSIVE SegmentsMatch(_, _)
SegmentsMatch(pats, names) ==
  IF pats = <<>> THEN names = <<>>
  ELSE IF Head(pats) = <<"*", "*">>
       THEN \/ SegmentsMatch(Tail(pats), names)
            \/ names # <<>> /\ SegmentsMatch(pats, Tail(names))
       ELSE /\ names # <<>>
            /\ WildMatch(Head(pats), Head(names))
            /\ SegmentsMatch(Tail(pats), Tail(names))

\* A path matches a pattern under glob semantics; a pattern without
\* wildcard also stands for everything below the directory it names.
GlobMatch(pattern, path) ==
  \/ SegmentsMatch(SplitSep(pattern, <<>>), SplitSep(path, <<>>))
  \/ ~HasStar(pattern) /\ StartsWith(path, pattern \o <<"/">>)

\* The session file <root>/agents/<id>/sessions/<name>.jsonl.
SessionFile == StateDir \o <<"/", "g", "/", "x", "/", "s", "/", "x", "j">>

\* C26: matchesPattern answers as glob semantics do, "*" standing for any
\* run of characters inside one path segment and "**" for any number of
\* segments; a session file matches the default session pattern.
C26_MatchesAsGlob ==
  fx.pc = "matched" => (fx.res <=> GlobMatch(fx.pattern, fx.path))

\* The file systems of the resolution scenarios.
TreeFiles == {TreeOrder[i] : i \in 1..Len(TreeOrder)}
Trees == [TreeFiles -> [exists : BOOLEAN]]

\* The configurations of the resolution scenarios: the default descriptors,
\* and one descriptor with an exact file, a directory, a wildcard in a file
\* name or a recursive wildcard.
Configs ==
  {getDefaultWatchedPaths(StateDir)}
  \cup { << [pattern |-> pattern, sourceType |-> "session"] >> :
            pattern \in { SessionFile,
                          StateDir \o <<"/", "g">>,
                          <<"/", "t", "/", "o", "/", "*">>,
                          StateDir \o <<"/", "g", "/", "x", "/", "s", "/", "*", "j">>,
                          StateDir \o <<"/", "g", "/", "*", "*">>,
                          StateDir \o <<"/", "*", "*", "/", "c", "j">> } }

\* A call ingestExisting() before it is made.
InitResolve ==
  /\ InitQuiet
  /\ \E fs \in Trees, wps \in Configs :
       fx = [pc |-> "existing", fs |-> fs, wps |-> wps, passes |-> <<>>]

\* ingestExisting: resolveWatchedFiles(watchedPaths), then one call
\* ingestFile(path, sourceType) for each file resolved.
IngestExistingFiles ==
  /\ fx.pc = "existing"
  /\ fx' = [fx EXCEPT !.pc = "ingested", !.passes = resolveFrom(fx.fs, fx.wps)]
  /\ UNCHANGED <<ingestorVars, rd>>

NextResolve == IngestExistingFiles
SpecResolve == InitResolve /\ [][NextResolve]_vars

\* The passes ingestFile(path, sourceType) of the call.
PassesOf(path, sourceType) ==
  {i \in 1..Len(fx.passes) :
     fx.passes[i] = [path |-> path, sourceType |-> sourceType]}

\* C27: ingestExisting runs one ingestFile pass, with the descriptor's source
\* type, for every existing file that matches the pattern of a configured
\* descriptor, be the pattern an exact path, a single-segment wildcard or a
\* recursive wildcard.
C27_ExistingFilesIngested ==
  fx.pc = "ingested" =>
    \A i \in 1..Len(fx.wps) : \A file \in Existing(fx.fs) :
      GlobMatch(fx.wps[i].pattern, file) =>
        Cardinality(PassesOf(file, fx.wps[i].sourceType)) = 1

\* ------------------------------------------------------ unlink notifications
\* C29: an unlink notification is dropped: its delivery leaves the pending
\* set, the debounce timer and the store as they are.
C29_UnlinkDropped ==
  [][(\E p \in Paths : OnUnlink(p)) =>
       UNCHANGED <<pendingFiles, ingestTimer, timers, tracked, events>>]_vars

\* The unlink notification of a removed file was delivered, and the events
\* and the tracked row of the removed file are in the store.
C29_Witness ==
  \E p \in Paths :
    /\ unlinks[p].delivered
    /\ ~files[p].exists
    /\ events[p] # <<>>
    /\ tracked[p].present

\* --------------------------------------------------- classification scenario
\* The paths the watcher reports: a session file, a .jsonl file of the
\* agents directory, a file of the state directory and a file elsewhere.
NotifiedPaths ==
  { SessionFile,
    StateDir \o <<"/", "g", "/", "x", "j">>,
    StateDir \o <<"/", "x", "j">>,
    <<"/", "t", "/", "x">> }

\* The descriptors of the scenario: an exact file, a directory, a wildcard in
\* a file name and a recursive wildcard, each with any source type.
Descriptors ==
  [pattern : { SessionFile,
               StateDir \o <<"/", "g">>,
               StateDir \o <<"/", "g", "/", "*", "j">>,
               StateDir \o <<"/", "g", "/", "*", "*">> },
   sourceType : SourceTypes]

RECURSIVE ListsUpTo(_, _)
ListsUpTo(S, n) ==
  IF n = 0 THEN {<<>>}
  ELSE LET shorter == ListsUpTo(S, n - 1) IN
       shorter \cup {Append(l, x) : l \in shorter, x \in S}

\* A notification of chokidar before the watcher's handler runs, for an
\* ingestor with the descriptors wps.
InitClassify ==
  /\ InitQuiet
  /\ \E path \in NotifiedPaths, eventType \in {"add", "change", "unlink"} :
     \E wps \in ListsUpTo(Descriptors, MaxDescriptors) \ {<<>>} :
       fx = [pc |-> "notified", path |-> path, eventType |-> eventType, wps |-> wps,
             called |-> <<>>, pending |-> <<>>, passes |-> <<>>]

\* emitEvent: no callback for a path without source type; onFileChange
\* queues the path of every event but an unlink.
EmitEvent ==
  /\ fx.pc = "notified"
  /\ LET sourceType == FirstMatch(fx.wps, fx.path) IN
     IF sourceType = NoType
     THEN fx' = [fx EXCEPT !.pc = "ignored"]
     ELSE fx' = [fx EXCEPT
                   !.pc = "called",
                   !.called = <<[path |-> fx.path, sourceType |-> sourceType,
                                 eventType |-> fx.eventType]>>,
                   !.pending = IF IsDropped(fx.eventType) THEN <<>>
                               ELSE SetAdd(<<>>, fx.path)]
  /\ UNCHANGED <<ingestorVars, rd>>

\* processPendingFiles: a path without source type is skipped, any other is
\* ingested with the type getSourceTypeForFile finds.
ProcessPending ==
  /\ fx.pc = "called"
  /\ fx.pending # <<>>
  /\ LET sourceType == FirstMatch(fx.wps, Head(fx.pending)) IN
     fx' = [fx EXCEPT
              !.pc = "processed",
              !.pending = Tail(fx.pending),
              !.passes = IF sourceType = NoType THEN <<>>
                         ELSE <<[path |-> Head(fx.pending),
                                 sourceType |-> sourceType]>>]
  /\ UNCHANGED <<ingestorVars, rd>>

NextClassify == EmitEvent \/ ProcessPending
SpecClassify == InitClassify /\ [][NextClassify]_vars

\* The descriptors of the scenario whose pattern matches the reported path.
Matching == {i \in 1..Len(fx.wps) : matchesPattern(fx.path, fx.wps[i].pattern)}
FirstMatching == CHOOSE i \in Matching : \A j \in Matching : i <= j

\* C28: a changed path is classified with the source type of the first
\* descriptor, in list order, whose pattern matches it; a path that matches
\* no descriptor produces no callback and is never ingested.
C28_FirstDescriptorClassifies ==
  fx.pc # "notified" =>
    IF Matching = {}
    THEN fx.pc = "ignored" /\ fx.called = <<>> /\ fx.pending = <<>> /\ fx.passes = <<>>
    ELSE /\ fx.pc \in {"called", "processed"}
         /\ Len(fx.called) = 1
         /\ fx.called[1].path = fx.path
         /\ fx.called[1].sourceType = fx.wps[FirstMatching].sourceType
         /\ fx.pc = "processed" =>
              fx.passes = <<[path |-> fx.path,
                             sourceType |-> fx.wps[FirstMatching].sourceType]>>

\* A path that two descriptors with different source types match was
\* ingested with the source type of the first.
C28_Witness ==
  /\ fx.pc = "processed"
  /\ Cardinality(Matching) = 2
  /\ fx.wps[1].sourceType # fx.wps[2].sourceType
  /\ fx.passes[1].sourceType = fx.wps[1].sourceType

\* ----------------------------------------------------------- session headers
\* The session parser was given an object text.
FxSessionRecord == FxParsed /\ fx.parser = "session" /\ FxIsObject

\* The event is a session start with the record's id as its session.
IsSessionStart(res, entry) ==
  /\ IsEvent(res)
  /\ res[1].eventType = <<"session:start">>
  /\ res[1].sessionId = Get(entry, "id")

FxCacheRecord ==
  FxParsed /\ fx.parser = "cache-trace" /\ FxIsObject /\ isCacheTraceEvent(FxEntry)

\* The preview by precedence: the note when present, else the error, else
\* the message count, else none.
PreviewByPrecedence(entry) ==
  IF Get(entry, "note").t # "undefined" THEN Get(entry, "note")
  ELSE IF Get(entry, "error").t # "undefined"
  THEN Str(<<"error: ">> \o Template(Get(entry, "error")))
  ELSE IF Get(entry, "messageCount").t # "undefined"
  THEN Str(<<"messages: ">> \o Template(Get(entry, "messageCount")))
  ELSE Undef

\* C31: every valid cache-trace record becomes an event of type
\* cache:<stage> whose messagePreview is, cut to the preview length, the note
\* when present, else "error: <error>", else "messages: <messageCount>", else
\* absent.
C31_CacheTracePreview ==
  FxCacheRecord =>
    /\ IsEvent(fx.res)
    /\ FxEvent.eventType = <<"cache:">> \o Get(FxEntry, "stage").s
    /\ LET text == PreviewByPrecedence(FxEntry) IN
       FxEvent.messagePreview =
         IF text.t = "undefined" THEN Undef
         ELSE [text EXCEPT !.s = SubSeq(text.s, 1, Min(Len(text.s), PREVIEW_CHARS))]
\* ------------------------------------------------------- agent of a session
\* The names of the session paths: agents, sessions, another name, a name
\* that ends with the text agents and one that starts with the text sessions.
AgentNames == { <<"g">>, <<"s">>, <<"x">>, <<"x", "g">>, <<"s", "x">> }

\* The relative paths of one to n names.
RECURSIVE NamePaths(_)
NamePaths(n) ==
  IF n = 1 THEN AgentNames
  ELSE LET shorter == NamePaths(n - 1) IN
       shorter \cup {p \o <<"/">> \o name : p \in shorter, name \in AgentNames}

\* Relative and absolute session paths.
AgentPaths ==
  NamePaths(MaxSegments) \cup {<<"/">> \o p : p \in NamePaths(MaxSegments)}

\* Session lines: a header, a message, a message with a date that is none,
\* a record of another type and a record without a type.
AgentBodies ==
  { <<"{", "S", "V", "I", "}">>, <<"{", "M", "a", "}">>, <<"{", "M", "c", "}">>,
    <<"{", "y", "}">>, <<"{", "k", "}">> }

InitAgent ==
  /\ InitQuiet
  /\ \E body \in AgentBodies :
     \E path \in AgentPaths :
       fx = [pc |-> "path", parser |-> "session", body |-> body, line |-> body,
             file |-> path, res |-> Null]

\* parseSessionLine(line, sourceFile)
ParseAt ==
  /\ fx.pc = "path"
  /\ fx' = [fx EXCEPT !.pc = "agent",
                      !.res = parseSessionLine(fx.line, fx.file)]
  /\ UNCHANGED <<ingestorVars, rd>>

NextAgent == ParseAt

SpecAgent == InitAgent /\ [][NextAgent]_vars

\* The positions of path at which the text agents/<id>/sessions/ occurs with
\* an <id> of n characters, none of them a "/".
OccursAt(path, i, n) ==
  /\ n >= 1
  /\ i + n + 4 <= Len(path)
  /\ path[i] = "g"
  /\ path[i + 1] = "/"
  /\ \A k \in (i + 2)..(i + n + 1) : path[k] # "/"
  /\ path[i + n + 2] = "/"
  /\ path[i + n + 3] = "s"
  /\ path[i + n + 4] = "/"

Occurrences(path) ==
  {i \in 1..Len(path) : \E n \in 1..Len(path) : OccursAt(path, i, n)}

FirstOccurrence(path) ==
  CHOOSE i \in Occurrences(path) : \A k \in Occurrences(path) : i <= k

IdOf(path, i) ==
  LET n == CHOOSE m \in 1..Len(path) : OccursAt(path, i, m)
  IN  SubSeq(path, i + 2, i + n + 1)

\* C32: every event parseSessionLine returns carries as agentId the <id> of
\* the first agents/<id>/sessions/ occurrence in the path of the source
\* file, and no agentId when the path has no such occurrence.
C32_AgentFromPath ==
  (fx.pc = "agent" /\ IsEvent(fx.res)) =>
    FxEvent.agentId =
      IF Occurrences(fx.file) = {} THEN Undef
      ELSE Str(IdOf(fx.file, FirstOccurrence(fx.file)))

\* An event of a path with two occurrences of different ids.
C32_Witness ==
  /\ fx.pc = "agent"
  /\ IsEvent(fx.res)
  /\ Cardinality(Occurrences(fx.file)) >= 2
  /\ \E i, k \in Occurrences(fx.file) : IdOf(fx.file, i) # IdOf(fx.file, k)
  /\ FxEvent.agentId.t = "string"

\* ------------------------------------------------------- level and subsystem
\* The level name, the numeric level and the subsystem name a tslog record
\* carries, the member of _meta before the member of the record itself.
LevelNameOf(entry) ==
  LET metaName == Get(Get(entry, "_meta"), "logLevelName")
  IN  IF metaName.t # "undefined" THEN metaName ELSE Get(entry, "logLevelName")
LevelIdOf(entry) ==
  LET metaId == Get(Get(entry, "_meta"), "logLevelId")
  IN  IF metaId.t # "undefined" THEN metaId ELSE Get(entry, "logLevel")
SubsystemOf(entry) ==
  LET metaName == Get(Get(entry, "_meta"), "name")
  IN  IF metaName.t # "undefined" THEN metaName ELSE Get(entry, "subsystem")

FxLogRecord == FxParsed /\ fx.parser = "system-log" /\ FxIsObject

\* C33: for a tslog record parseSystemLogLine returns an event whose level is
\* the lower-cased level name when the record carries one, otherwise the name
\* of its numeric level 0..6 (silly, trace, debug, info, warn, error, fatal),
\* otherwise absent, and whose eventType is log:<subsystem> when the record
\* carries a subsystem name and log when it carries none.
C33_LevelAndEventType ==
  FxLogRecord =>
    /\ IsEvent(fx.res)
    /\ FxEvent.level =
         IF LevelNameOf(FxEntry).t # "undefined"
         THEN Str(ToLowerCase(LevelNameOf(FxEntry).s))
         ELSE IF LevelIdOf(FxEntry).t = "number" /\ LevelIdOf(FxEntry).n \in 0..6
         THEN Str(<<LOG_LEVEL_MAP[LevelIdOf(FxEntry).n]>>)
         ELSE Undef
    /\ FxEvent.eventType =
         IF SubsystemOf(FxEntry).t # "undefined"
         THEN <<"log:">> \o SubsystemOf(FxEntry).s
         ELSE <<"log">>

\* The same for the records whose level name, if any, is a text.
C33_LevelOfTextNames ==
  (FxLogRecord /\ LevelNameOf(FxEntry).t \in {"undefined", "string"}) =>
    C33_LevelAndEventType

\* ------------------------------------------------------- one writer per file
\* The ingestFile of task t is between its cursor lookup and its upsert.
InFlight(t) == tasks[t].pc = "read"

\* C34: no two ingestFile executions of the same path are in flight at the
\* same time, whether they belong to a debounced pass, to ingestExisting or
\* to a direct ingestFile call.
C34_SingleWriterPerFile ==
  \A t1, t2 \in Slots :
    (t1 # t2 /\ InFlight(t1) /\ InFlight(t2)) => tasks[t1].path # tasks[t2].path

\* ------------------------------------------------------- backfill to watching
\* startWatching() has been called: its backfill runs or its watcher is attached.
Started == watcher # 0 \/ \E t \in Slots : tasks[t].kind = "start"

\* Two files written in whole records from the call of startWatching() on,
\* also while the backfill runs and no watcher is attached yet.
NextHandover ==
  \/ StartAlone
  \/ \E t \in Slots : Resolve(t)
  \/ \E p \in Paths : (Started /\ WriteRecord(p))
  \/ \E p \in Paths : OnFileChange(p)
  \/ TimerFire
  \/ \E t \in Slots : IngestStep(t)

\* resolveWatchedFiles returns, and the attached watcher delivers what it has
\* noticed.
ResolvesReturn == \A t \in Slots : []<>(tasks[t].pc # "resolve")
NotifsDelivered == \A p \in Paths : []<>(notifs[p] = 0)

SpecHandover ==
  /\ InitSound
  /\ [][NextHandover]_vars
  /\ WF_vars(TimerFire)
  /\ ReadsReturn
  /\ ResolvesReturn
  /\ NotifsDelivered

\* The number of complete lines of p that its parser turns into an event.
NumParseable(p) ==
  LET lines == CompleteLines(files[p].data)
  IN  Cardinality({i \in 1..Len(lines) : Parses(p, lines[i])})

\* C35: every line appended to a watched file after startWatching() was
\* called, also one appended after the backfill of that file and before the
\* watcher is attached, is eventually stored, whether or not the file is
\* written again.
C35_NoAppendMissed ==
  \A p \in Paths : \A n \in 1..MaxFileLen :
    (NumParseable(p) >= n) ~> (Len(events[p]) >= n)

\* ------------------------------------------------------- the cap of one read
\* The start offset the first read of the scenario chose.
RdStart == SliceStart(RdSize, rd.cursorArg, RdCap).start

\* C39: no readLogSlice call reads more than the cap: for every cursor,
\* supplied or absent, and every file size the span from the chosen start
\* offset to the size of the file is at most maxBytes.
C39_SpanWithinCap ==
  (rd.pc = "read1" /\ rd.file.exists) => RdSize - RdStart <= RdCap

\* The same for the reads whose cursor is absent or not beyond the file.
C39_SpanOfCursorInFile ==
  (rd.pc = "read1" /\ rd.file.exists /\ (rd.cursorArg = NoArg \/ RdCursor <= RdSize))
    => RdSize - RdStart <= RdCap

\* ------------------------------------------------------- one watcher
\* The startWatching() calls that are running their backfill.
Backfills == {t \in Slots : tasks[t].kind = "start"}

\* C37: at most one watcher is ever attached to an instance, and a
\* startWatching() call made while an earlier one is still running its
\* backfill starts no second backfill and creates no second watcher.
C37_AtMostOneWatcher ==
  /\ Cardinality(live) <= 1
  /\ Cardinality(Backfills) <= 1

\* ------------------------------------------------------- stopWatching
\* A stopWatching() call awaits watcher.close().
Stopping == \E t \in Slots : tasks[t].pc = "closing"

\* Watching two files written in whole records, stopped and started again at
\* any time, one startWatching() at a time; a watcher that is being closed
\* delivers nothing.
NextStop ==
  \/ StartAlone
  \/ \E t \in Slots : Resolve(t)
  \/ \E p \in Paths : (watcher # 0 /\ WriteRecord(p))
  \/ \E p \in Paths : (~Stopping /\ OnFileChange(p))
  \/ TimerFire
  \/ \E t \in Slots : IngestStep(t)
  \/ CallStopWatching
  \/ \E t \in Slots : CloseResume(t)

SpecStop == InitSound /\ [][NextStop]_vars

\* No watcher is attached and neither a startWatching() nor a stopWatching()
\* call is running: the last stopWatching() has resolved and startWatching()
\* has not been called since (or was never called).
StopResolved ==
  /\ watcher = 0
  /\ \A t \in Slots : tasks[t].kind \notin {"start", "stop"}

\* C38: once stopWatching() has resolved, and until startWatching() is
\* called again, no debounce timer is armed, so that no debounced pass
\* starts, also when a pass was in flight or paths were pending while
\* stopWatching() ran.
C38_StoppedIsQuiet ==
  StopResolved => (~ingestTimer /\ timers = 0)

\* ------------------------------------------------------- rotation
\* The contents a rotated file starts with: nothing, or one record.
RotatedContents == {<<>>} \cup {rec \o <<NL>> : rec \in Records}

InitRotate ==
  /\ files = [p \in Paths |-> NoFile]
  /\ wrest = [p \in Paths |-> <<>>]
  /\ notifs = [p \in Paths |-> 0]
  /\ tracked = [p \in Paths |-> NoRow]
  /\ events = [p \in Paths |-> <<>>]
  /\ dbOpen = TRUE
  /\ failBudget = 0
  /\ batchSize = DEFAULT_BATCH_SIZE
  /\ watcher = 0
  /\ live = {}
  /\ pendingFiles = <<>>
  /\ ingestTimer = FALSE
  /\ timers = 0
  /\ processing = FALSE
  /\ closed = FALSE
  /\ tasks = [t \in Slots |-> IdleTask]
  /\ calls = Unlimited
  /\ ret = NoRet
  /\ last = NoLast
  /\ clean = [p \in Paths |-> FALSE]
  /\ burst = [p \in Paths |-> 0]
  /\ runs = [p \in Paths |-> 0]
  /\ rd = NoRd
  /\ unlinks = NoUnlinks
  /\ fx = [pc |-> "rotate", path |-> <<>>, content |-> <<>>, base |-> 0, cursor |-> 0]

\* A log rotation while nothing is in flight: the file at p, ingested up to
\* a stored cursor, is truncated (or replaced) and holds `content`, which is
\* shorter than the cursor.  The attached watcher will report the change.
Truncate(p) ==
  /\ fx.pc = "rotate"
  /\ Quiescent
  /\ tracked[p].present
  /\ \E content \in RotatedContents :
       /\ Len(content) < tracked[p].byteOffset
       /\ files' = [files EXCEPT ![p] = FileOf(content)]
       /\ fx' = [pc |-> "rotated", path |-> p, content |-> content,
                 base |-> Len(events[p]), cursor |-> tracked[p].byteOffset]
  /\ wrest' = [wrest EXCEPT ![p] = <<>>]
  /\ notifs' = [notifs EXCEPT ![p] = Min(@ + Cardinality(live), MaxNotifs)]
  /\ clean' = [clean EXCEPT ![p] = FALSE]
  /\ OwnerCall
  /\ UNCHANGED <<storeVars, batchSize, watcher, live, pendingFiles, ingestTimer,
                 timers, processing, closed, tasks, ret, last, burst, runs, rd, unlinks>>

\* One watched file: written in whole records and ingested, rotated once,
\* and written again once the pass that serves the notification of the
\* rotation has run on the truncated file.
NextRotate ==
  \/ StartAlone
  \/ \E t \in Slots : Resolve(t)
  \/ (watcher # 0 /\ fx.pc = "rotate" /\ WriteRecord(PathA))
  \/ Truncate(PathA)
  \/ /\ fx.pc = "rotated"
     /\ files[PathA].data = fx.content => Quiescent
     /\ WriteRecord(PathA)
  \/ \E p \in Paths : OnFileChange(p)
  \/ TimerFire
  \/ \E t \in Slots : IngestStep(t)

SpecRotate == InitRotate /\ [][NextRotate]_vars

\* C36: after a file was truncated below its stored cursor and a pass has
\* run on it, whatever its size at that pass (0 bytes included), every
\* line written to it since the truncation is ingested: once nothing is left
\* in flight, the store holds an event for every line of the new content.
C36_RotationIngested ==
  (fx.pc = "rotated" /\ Quiescent) =>
    Len(events[fx.path]) - fx.base >= NumParseable(fx.path)

\* The same for a file that is not empty when the pass runs on it.
C36_RotationToContent ==
  (fx.pc = "rotated" /\ fx.content # <<>>) => C36_RotationIngested

====
